---- MODULE Spec2Model ----
(***************************************************************************)
(* A model of the MCP session/tool bridge of the VNStock agent             *)
(* (src/agents/agent.py): the initialize handshake and its cached session  *)
(* id, the JSON-RPC call client, the argument normalizer, the generated    *)
(* tool adapters and the catalog loader.                                   *)
(*                                                                         *)
(* Python values are tagged records, so that values of different Python    *)
(* types can be compared and so that an operation applied to a value of    *)
(* the wrong type is an explicit exception outcome.                        *)
(***************************************************************************)
EXTENDS Integers, Sequences, FiniteSets, TLC

VARIABLES
    _mcp_session_id,   \* the module global of agent.py:53
    pc,                \* where the running operation stands: idle, or before a POST
    op,                \* the operation that runs or ran last
    endpoint,          \* index of the loop variable `endpoint` in endpoints_to_try
    session_id,        \* the handshake's local session_id
    posts,             \* the POSTs of the current operation, in order, with their answers
    result,            \* what _call_mcp_jsonrpc returned to the current operation
    ret,               \* the outcome of the last completed operation
    prev,              \* summary of the operation completed before the current one
    adapter_tool,      \* the tool_name an adapter is bound to
    adapter_properties, \* its declared properties
    call_kwargs,       \* the keyword arguments of a call of _process_arguments
    processed_kwargs,  \* what _process_arguments returned for them
    call_result,       \* a value _call_mcp_jsonrpc handed to an adapter
    tool_output,       \* what the adapter made of it
    list_result,       \* a value _call_mcp_jsonrpc handed to the catalog loader
    loaded_tools,      \* the adapters _load_mcp_tools_via_http returned
    SESSION_SERVICE,   \* the session store: the number of sessions stored under a key
    session_calls,     \* per key, the calls of get_session and create_session
    chat_pc,           \* where the chat request in progress stands
    chat_turn,         \* the request in progress: messages, query, ids, agent run
    response,          \* the answer of the chat endpoint to the last request
    agent_run,         \* the run handed to _run_agent
    run_result,        \* what _run_agent returned for it
    classify_args,     \* reply, query and intent handed to the classifier
    classified,        \* what the classifier derived
    request_messages,  \* the messages of a request body
    validated,         \* the outcome of validate_vietnamese_messages
    vn_configured,     \* VnstockMCP: `self._client and self.base_url` is truthy
    vn_method,         \* the method of a call of VnstockMCP._call_mcp_jsonrpc
    vn_pc,             \* where that call stands
    vn_endpoint,       \* index of its loop variable `endpoint`
    vn_posts,          \* its POSTs, in order, with their answers
    vn_ret,            \* what it returned
    invoke_adapter,    \* a generated adapter
    invoke_kwargs,     \* the keyword arguments of a call of it
    invoke_sent,       \* the arguments of its tools/call request
    threads,           \* per thread, where it stands in agent.py and its locals
    writes,            \* the assignments of agent.py:144, in order
    requests           \* per concurrent chat request, where it stands in _ensure_session

argsVars == <<adapter_tool, adapter_properties, call_kwargs, processed_kwargs>>
adapterVars == <<call_result, tool_output>>
catalogVars == <<list_result, loaded_tools>>
chatVars == <<SESSION_SERVICE, session_calls, chat_pc, chat_turn, response>>
runVars == <<agent_run, run_result>>
classifyVars == <<classify_args, classified>>
validateVars == <<request_messages, validated>>
appVars == <<chatVars, runVars, classifyVars, validateVars>>
vnVars == <<vn_configured, vn_method, vn_pc, vn_endpoint, vn_posts, vn_ret>>
invokeVars == <<invoke_adapter, invoke_kwargs, invoke_sent>>
threadVars == <<threads, writes>>
requestVars == <<requests>>
extVars == <<vnVars, invokeVars, threadVars, requestVars>>
mcpVars == <<_mcp_session_id, pc, op, endpoint, session_id, posts, result, ret, prev>>

----------------------------------------------------------------------------
(* Python values *)

None == [t |-> "None"]
PStr(s) == [t |-> "str", s |-> s]
PInt(n) == [t |-> "int", n |-> n]
PList(xs) == [t |-> "list", xs |-> xs]
PDict(m) == [t |-> "dict", m |-> m]

\* bool(v)
Truthy(v) ==
    CASE v.t = "None" -> FALSE
      [] v.t = "str" -> v.s # ""
      [] v.t = "int" -> v.n # 0
      [] v.t = "list" -> Len(v.xs) > 0
      [] v.t = "dict" -> DOMAIN v.m # {}

\* a in b for two Python strings
IsSubstr(a, b) ==
    \E i \in 1..(Len(b) - Len(a) + 1) : SubSeq(b, i, i + Len(a) - 1) = a

\* `key in v` is defined for these types; on the others it raises TypeError
SupportsIn(v) == v.t \in {"dict", "list", "str"}

\* `key in v`, for v with SupportsIn(v)
In(key, v) ==
    CASE v.t = "dict" -> key \in DOMAIN v.m
      [] v.t = "list" -> \E i \in 1..Len(v.xs) : v.xs[i] = PStr(key)
      [] v.t = "str" -> IsSubstr(key, v.s)

\* d.get(key, default) of a dict
Get(d, key, default) == IF key \in DOMAIN d.m THEN d.m[key] ELSE default

\* outcomes of a Python call
Return(v) == [kind |-> "return", v |-> v]
Raise(e) == [kind |-> "raise", exc |-> e]
Running == [kind |-> "running"]

\* str(e) of a caught exception
ExcText(e) == PStr("<" \o e \o ">")

----------------------------------------------------------------------------
(* HTTP answers *)

\* A JSON text: valid text of a document, or text json.loads rejects.
JsonText(doc) == [valid |-> TRUE, doc |-> doc]
BadJson == [valid |-> FALSE]

\* A body is one JSON text, or an event stream of lines, each either a
\* "data: "-prefixed line carrying a JSON text or some other line.
JsonBody(jt) == [sse |-> FALSE, json |-> jt]
SseBody(lines) == [sse |-> TRUE, lines |-> lines]
DataLine(jt) == [data |-> TRUE, json |-> jt]
OtherLine == [data |-> FALSE]

\* json.loads
JsonLoads(jt) == IF jt.valid THEN Return(jt.doc) ELSE Raise("JSONDecodeError")

\* resp.json(): an event stream is not a JSON document
RespJson(body) == IF body.sse THEN Raise("JSONDecodeError") ELSE JsonLoads(body.json)

\* mutant: the first "data: " line that holds valid JSON is taken
_parse_sse_response_first_valid(body) ==
    IF ~body.sse THEN None
    ELSE LET idx == {i \in 1..Len(body.lines) : body.lines[i].data /\ body.lines[i].json.valid}
         IN IF idx = {} THEN None
            ELSE body.lines[CHOOSE i \in idx : \A j \in idx : i <= j].json.doc

\* agent.py:56-68. A plain JSON text has no line that starts with "data: ".
_parse_sse_response(body) ==
    IF ~body.sse THEN None
    ELSE LET idx == {i \in 1..Len(body.lines) : body.lines[i].data}
         IN IF idx = {} THEN None
            ELSE LET first == CHOOSE i \in idx : \A j \in idx : i <= j
                     loaded == JsonLoads(body.lines[first].json)
                 IN IF loaded.kind = "return" THEN loaded.v ELSE None

\* An answer to client.post: the call raises (connection refused, timeout), or
\* a response arrives.  sid is the value of the mcp-session-id header (None
\* when absent), ctype says whether content-type contains text/event-stream.
PostRaises == [raised |-> TRUE]
Response(status, sid, ctype, body) ==
    [raised |-> FALSE, status |-> status, sid |-> sid, ctype |-> ctype, body |-> body]

\* resp.headers.get("content-type", "").lower() contains "text/event-stream";
\* ctype is the header's value, lower-cased
IsEventStream(ctype) == IsSubstr("text/event-stream", ctype)

\* resp.raise_for_status() raises HTTPStatusError
IsHttpError(status) == status >= 400

endpoints_to_try == <<"/mcp", "/">>
IsLast(i) == i = Len(endpoints_to_try)

----------------------------------------------------------------------------
(* What the server may answer.  Fields the client does not read for a given
   status are fixed. *)

TextItem(s) == PDict(("type" :> PStr("text")) @@ ("text" :> PStr(s)))
ContentAB == PDict("content" :> PList(<<TextItem("A"), TextItem("B")>>))
ErrorObject(m, c) == PDict(("message" :> PStr(m)) @@ ("code" :> PInt(c)))

ResultEnvelope(r) == PDict(("jsonrpc" :> PStr("2.0")) @@ ("result" :> r))
ErrorEnvelope(e) == PDict(("jsonrpc" :> PStr("2.0")) @@ ("error" :> e))

ErrorObjects == {ErrorObject("boom", 7), ErrorObject("bad request", -32600), PDict(<<>>)}

SessionIds == {PStr("sid-a"), PStr("sid-b")}
SidHeaders == {None, PStr("")} \cup SessionIds
ContentTypes == {"application/json", "text/event-stream; charset=utf-8"}

NoBody == JsonBody(BadJson)
ErrorStatuses == {404, 500}
----------------------------------------------------------------------------
(* _initialize_mcp_session, agent.py:71-175 *)

\* mutant: the cached-handle check is missing
HasSession_never(sid) == FALSE

\* agent.py:75 and 185: `if _mcp_session_id` / `if not _mcp_session_id`
HasSession(sid) == Truthy(sid)

Continue == [kind |-> "continue"]
ReturnNone == [kind |-> "return_none"]
Cache(sid) == [kind |-> "cache", sid |-> sid]

\* agent.py:127-134 and 222-229: the body decoded by its content type
BodyDoc(r) ==
    IF IsEventStream(r.ctype) THEN Return(_parse_sse_response(r.body))
    ELSE RespJson(r.body)

\* agent.py:126-136: decoding of the initialize response; a JSONDecodeError
\* of resp.json() leaves result = None
InitializeDecode(r) ==
    LET d == BodyDoc(r) IN IF d.kind = "return" THEN d.v ELSE None

\* mutant: the body of the initialize response is not inspected
InitializeRejectsBody_never(res) == FALSE

\* agent.py:138-141: `result and "error" in result` holds and the function
\* returns None, or evaluating it (or result["error"].get) raises and the outer
\* handler of lines 171-173 returns None
InitializeRejectsBody(res) ==
    Truthy(res) /\ (~SupportsIn(res) \/ In("error", res))

\* mutant: a 404 on a path that is not the last ends the handshake
InitializeAnswer_stops_on_404(r, i) ==
    IF r.raised THEN ReturnNone
    ELSE IF r.status # 200 THEN (IF ~IsLast(i) /\ r.status # 404 THEN Continue ELSE ReturnNone)
    ELSE IF ~Truthy(r.sid) THEN (IF ~IsLast(i) THEN Continue ELSE ReturnNone)
    ELSE IF InitializeRejectsBody(InitializeDecode(r)) THEN ReturnNone
    ELSE Cache(r.sid)

\* One pass of the loop of agent.py:96-144 for the answer r of the POST to
\* endpoints_to_try[i].  client.post raises no HTTPStatusError, so an
\* exception leaves through the outer handler (lines 171-173).
InitializeAnswer(r, i) ==
    IF r.raised THEN ReturnNone
    ELSE IF r.status = 404 /\ ~IsLast(i) THEN Continue
    ELSE IF r.status # 200 THEN (IF ~IsLast(i) THEN Continue ELSE ReturnNone)
    ELSE IF ~Truthy(r.sid) THEN (IF ~IsLast(i) THEN Continue ELSE ReturnNone)
    ELSE IF InitializeRejectsBody(InitializeDecode(r)) THEN ReturnNone
    ELSE Cache(r.sid)

----------------------------------------------------------------------------
(* _call_mcp_jsonrpc, agent.py:178-275 *)

ErrorDict(msg, method) == PDict(("error" :> msg) @@ ("method" :> PStr(method)))

\* agent.py:188-191
InitFailedError(method) == ErrorDict(PStr("Failed to initialize MCP session"), method)

\* agent.py:258-262
HttpError(status, method, ep) ==
    PDict(("error" :> PStr("HTTP " \o ToString(status) \o ": <body>"))
          @@ ("method" :> PStr(method)) @@ ("endpoint" :> PStr(ep)))

\* agent.py:231-235
InvalidJsonError(method) ==
    PDict(("error" :> PStr("Invalid JSON response")) @@ ("method" :> PStr(method))
          @@ ("response" :> PStr("<body>")))

\* agent.py:270-275
ExceptionError(e, method) ==
    PDict(("error" :> ExcText(e)) @@ ("method" :> PStr(method))
          @@ ("note" :> PStr("Failed to call MCP server")))

\* mutant: the code is read from the envelope instead of its error object
CallEnvelope_envelope_code(res, method) ==
    IF ~Truthy(res) THEN Return(ErrorDict(PStr("Failed to parse response"), method))
    ELSE IF ~SupportsIn(res) THEN Raise("TypeError")
    ELSE IF In("error", res) THEN
        IF res.t # "dict" THEN Raise("TypeError")
        ELSE IF res.m["error"].t # "dict" THEN Raise("AttributeError")
        ELSE Return(PDict(("error" :> Get(res.m["error"], "message", PStr("Unknown error")))
                          @@ ("code" :> Get(res, "code", None))
                          @@ ("method" :> PStr(method))))
    ELSE IF res.t # "dict" THEN Raise("AttributeError")
    ELSE Return(Get(res, "result", res))

\* agent.py:237-250, for the decoded body res
CallEnvelope(res, method) ==
    IF ~Truthy(res) THEN Return(ErrorDict(PStr("Failed to parse response"), method))
    ELSE IF ~SupportsIn(res) THEN Raise("TypeError")
    ELSE IF In("error", res) THEN
        IF res.t # "dict" THEN Raise("TypeError")
        ELSE IF res.m["error"].t # "dict" THEN Raise("AttributeError")
        ELSE Return(PDict(("error" :> Get(res.m["error"], "message", PStr("Unknown error")))
                          @@ ("code" :> Get(res.m["error"], "code", None))
                          @@ ("method" :> PStr(method))))
    ELSE IF res.t # "dict" THEN Raise("AttributeError")
    ELSE Return(Get(res, "result", res))

\* agent.py:221-250
CallDecode(r, method) ==
    LET d == BodyDoc(r)
    IN IF d.kind = "raise" THEN Return(InvalidJsonError(method))
       ELSE CallEnvelope(d.v, method)

\* mutant: any error status on a path that is not the last moves on
CallAnswer_retries_on_error(r, i, method) ==
    IF r.raised THEN Raise("ConnectError")
    ELSE IF IsHttpError(r.status) THEN
        (IF ~IsLast(i) THEN Continue
         ELSE Return(HttpError(r.status, method, endpoints_to_try[i])))
    ELSE CallDecode(r, method)

\* One pass of the loop of agent.py:205-262 for the answer r of the POST to
\* endpoints_to_try[i]: Continue, or how the try block is left.
CallAnswer(r, i, method) ==
    IF r.raised THEN Raise("ConnectError")
    ELSE IF r.status = 404 /\ ~IsLast(i) THEN Continue
    ELSE IF IsHttpError(r.status) THEN
        (IF r.status = 404 /\ ~IsLast(i) THEN Continue
         ELSE Return(HttpError(r.status, method, endpoints_to_try[i])))
    ELSE CallDecode(r, method)

\* mutant: no outer handler, the exception leaves _call_mcp_jsonrpc
CallOutcome_propagates(o, method) == o

\* agent.py:193, 270-275: the outer handler turns every exception into a value
CallOutcome(o, method) ==
    IF o.kind = "raise" THEN Return(ExceptionError(o.exc, method)) ELSE o
----------------------------------------------------------------------------
(* The generated adapter, agent.py:467-523 (the body of the tool function
   after the arguments were processed and _call_mcp_jsonrpc returned res) *)

\* agent.py:509-515: the texts collected from the items of a content list
RECURSIVE ContentTexts(_)
ContentTexts(items) ==
    IF items = <<>> THEN <<>>
    ELSE LET item == Head(items)
             rest == ContentTexts(Tail(items))
         IN IF item.t # "dict" THEN rest
            ELSE IF "text" \in DOMAIN item.m THEN <<item.m["text"]>> \o rest
            ELSE IF "type" \in DOMAIN item.m /\ Get(item, "type", None) = PStr("text")
                 THEN <<Get(item, "text", PStr(""))>> \o rest
            ELSE rest

\* '\n'.join(texts) of a non-empty list of str
RECURSIVE JoinLines(_)
JoinLines(texts) ==
    IF Len(texts) = 1 THEN Head(texts).s
    ELSE Head(texts).s \o "\n" \o JoinLines(Tail(texts))

\* mutant: only the first text is returned
ContentReturn_first_text(content) ==
    IF content.t # "list" THEN Return(content)
    ELSE LET texts == ContentTexts(content.xs)
         IN IF texts = <<>> THEN Return(content) ELSE Return(texts[1])

\* agent.py:507-518, for a dict res that has the key content
ContentReturn(content) ==
    IF content.t # "list" THEN Return(content)
    ELSE LET texts == ContentTexts(content.xs)
         IN IF texts = <<>> THEN Return(content)
            ELSE IF \E i \in 1..Len(texts) : texts[i].t # "str" THEN Raise("TypeError")
            ELSE Return(PStr(JoinLines(texts)))

\* agent.py:496-522
tool_function(tool_name, res) ==
    IF ~SupportsIn(res) THEN Raise("TypeError")
    ELSE IF In("error", res) THEN
        IF res.t # "dict" THEN Raise("AttributeError")
        ELSE Return(PDict(("error" :> Get(res, "error", PStr("Unknown error")))
                          @@ ("tool" :> PStr(tool_name))
                          @@ ("code" :> Get(res, "code", None))))
    ELSE IF In("content", res) THEN
        (IF res.t # "dict" THEN Raise("TypeError") ELSE ContentReturn(res.m["content"]))
    ELSE IF In("text", res) THEN
        (IF res.t # "dict" THEN Raise("TypeError") ELSE Return(res.m["text"]))
    ELSE Return(res)
----------------------------------------------------------------------------
(* Dicts whose order matters (keyword arguments, declared properties) carry
   their keys in insertion order beside the mapping. *)

OD(pairs) ==
    [t |-> "dict",
     keys |-> [i \in 1..Len(pairs) |-> pairs[i][1]],
     m |-> [k \in {pairs[i][1] : i \in 1..Len(pairs)} |->
                pairs[CHOOSE i \in 1..Len(pairs) : pairs[i][1] = k][2]]]

\* d[k] = v
SetItem(d, k, v) ==
    [t |-> "dict",
     keys |-> IF k \in DOMAIN d.m THEN d.keys ELSE Append(d.keys, k),
     m |-> [x \in DOMAIN d.m \cup {k} |-> IF x = k THEN v ELSE d.m[x]]]

\* str(v)
PyStr(v) ==
    CASE v.t = "str" -> v
      [] v.t = "int" -> PStr(ToString(v.n))
      [] v.t = "None" -> PStr("None")
      [] OTHER -> PStr("<repr>")

----------------------------------------------------------------------------
(* _process_arguments, agent.py:278-341 *)

\* agent.py:284-292: the keys renamed by the alias table, in order; a later
\* argument that lands on a name already present replaces its value
RECURSIVE NormalizeKwargs(_, _, _, _)
NormalizeKwargs(keys, kwargs, tool_param_mapping, acc) ==
    IF keys = <<>> THEN acc
    ELSE LET key == Head(keys)
             normalized_key == IF key \in DOMAIN tool_param_mapping
                               THEN tool_param_mapping[key] ELSE key
         IN NormalizeKwargs(Tail(keys), kwargs, tool_param_mapping,
                            SetItem(acc, normalized_key, kwargs.m[key]))

\* agent.py:315-317
IsArrayType(param_type) ==
    \/ param_type = PStr("array")
    \/ param_type.t = "list" /\ \E i \in 1..Len(param_type.xs) : param_type.xs[i] = PStr("array")

\* mutant: a string is not wrapped when the schema asks for an array
CoerceArray_keeps_string(param_value) ==
    IF param_value.t = "str" THEN param_value
    ELSE IF param_value.t = "list" THEN param_value
    ELSE PList(<<param_value>>)

\* agent.py:318-325
CoerceArray(param_value) ==
    IF param_value.t = "str" THEN PList(<<param_value>>)
    ELSE IF param_value.t = "list" THEN param_value
    ELSE PList(<<param_value>>)

\* agent.py:306-313
CoercePriceBoardSymbols(param_value) ==
    IF param_value.t = "str" THEN PList(<<param_value>>)
    ELSE IF param_value.t = "list" THEN param_value
    ELSE PList(<<PyStr(param_value)>>)

\* mutant: a sequence is kept when the schema asks for a string
CoerceString_keeps_list(param_value) ==
    IF param_value.t = "list" THEN param_value ELSE PyStr(param_value)

\* agent.py:328-336
CoerceString(param_value) ==
    IF param_value.t = "list"
    THEN (IF Len(param_value.xs) > 0 THEN PyStr(param_value.xs[1]) ELSE PStr(""))
    ELSE PyStr(param_value)

\* agent.py:296-339: the processed value of one normalized argument
ProcessParam(tool_name, properties, param_name, param_value) ==
    IF param_name \notin DOMAIN properties.m THEN param_value
    ELSE LET param_type == Get(properties.m[param_name], "type", None)
         IN IF tool_name = "get_price_board" /\ param_name = "symbols"
            THEN CoercePriceBoardSymbols(param_value)
            ELSE IF IsArrayType(param_type) THEN CoerceArray(param_value)
            ELSE IF param_type = PStr("string") THEN CoerceString(param_value)
            ELSE param_value

RECURSIVE ProcessKwargs(_, _, _, _, _)
ProcessKwargs(tool_name, properties, keys, normalized_kwargs, acc) ==
    IF keys = <<>> THEN acc
    ELSE ProcessKwargs(tool_name, properties, Tail(keys), normalized_kwargs,
                       SetItem(acc, Head(keys),
                               ProcessParam(tool_name, properties, Head(keys),
                                            normalized_kwargs.m[Head(keys)])))

_process_arguments(tool_name, properties, tool_param_mapping, kwargs) ==
    LET normalized_kwargs == NormalizeKwargs(kwargs.keys, kwargs, tool_param_mapping, OD(<<>>))
    IN ProcessKwargs(tool_name, properties, normalized_kwargs.keys, normalized_kwargs, OD(<<>>))

----------------------------------------------------------------------------
(* _create_mcp_tool_function, agent.py:344-543 *)

\* agent.py:362-367
SymbolsMapping ==
    [k \in {"symbol", "symbol_list", "stocks", "stock"} |-> "symbols"]

\* agent.py:370-375
SymbolMapping ==
    [k \in {"symbols", "symbol_list", "stocks", "stock"} |-> "symbol"]

\* agent.py:378-385
specific_mappings == [n \in {"get_price_board"} |-> SymbolsMapping]

\* mutant: the table of "symbols" is used for a tool that declares "symbol"
ToolParamMapping_plural(tool_name, properties) ==
    IF tool_name \in DOMAIN specific_mappings THEN specific_mappings[tool_name]
    ELSE IF "symbols" \in DOMAIN properties.m \/ "symbol" \in DOMAIN properties.m
    THEN SymbolsMapping
    ELSE <<>>

\* agent.py:354-387
ToolParamMapping(tool_name, properties) ==
    IF tool_name \in DOMAIN specific_mappings THEN specific_mappings[tool_name]
    ELSE IF "symbols" \in DOMAIN properties.m THEN SymbolsMapping
    ELSE IF "symbol" \in DOMAIN properties.m THEN SymbolMapping
    ELSE <<>>

\* what Python accepts as the name of a function or of a parameter
IdStartChars == "abcdefghijklmnopqrstuvwxyzABCDEFGHIJKLMNOPQRSTUVWXYZ_"
IdChars == IdStartChars \o "0123456789"
PyKeywords ==
    {"False", "None", "True", "and", "as", "async", "await", "break", "class",
     "continue", "def", "del", "elif", "else", "except", "finally", "for", "from",
     "global", "if", "import", "in", "is", "lambda", "nonlocal", "not", "or",
     "pass", "raise", "return", "try", "while", "with", "yield"}
IsIdentifier(name) ==
    /\ Len(name) > 0
    /\ IsSubstr(SubSeq(name, 1, 1), IdStartChars)
    /\ \A i \in 1..Len(name) : IsSubstr(SubSeq(name, i, i), IdChars)
    /\ name \notin PyKeywords

\* agent.py:447-451: the default as it is written into the generated
\* source; a string default is put between double quotes as it is
DefaultSourceOk(default) ==
    default.t = "str" => ~IsSubstr("\"", default.s) /\ ~IsSubstr("\\", default.s)

\* mutant: the declared default is not carried into the signature
ParamSignature_drops_default(properties, required, param_name) ==
    LET default == Get(properties.m[param_name], "default", None)
    IN [name |-> param_name,
        mandatory |-> In(param_name, required) /\ default = None,
        default |-> None]

\* agent.py:413-460: one entry per declared property, in the order of the
\* schema: the parameter is mandatory when it is required and has no default
ParamSignature(properties, required, param_name) ==
    LET default == Get(properties.m[param_name], "default", None)
    IN [name |-> param_name,
        mandatory |-> In(param_name, required) /\ default = None,
        default |-> default]

Signature(properties, required) ==
    [i \in 1..Len(properties.keys) |-> ParamSignature(properties, required, properties.keys[i])]

\* agent.py:526, 540: exec compiles `def <tool_name>(<parameters>):`; Python
\* rejects a name that is no identifier, a parameter without default after
\* one with a default, and a default that does not read as an expression
ExecAccepts(tool_name, signature) ==
    /\ tool_name.t = "str" /\ IsIdentifier(tool_name.s)
    /\ \A i \in 1..Len(signature) :
          /\ IsIdentifier(signature[i].name)
          /\ DefaultSourceOk(signature[i].default)
          /\ \A j \in 1..Len(signature) :
                i < j /\ ~signature[i].mandatory => ~signature[j].mandatory

\* agent.py:344-543: the adapter, or the SyntaxError of exec
_create_mcp_tool_function(tool_name, tool_schema) ==
    LET input_schema == Get(tool_schema, "inputSchema", OD(<<>>))
        properties == Get(input_schema, "properties", OD(<<>>))
        required == Get(input_schema, "required", PList(<<>>))
        signature == Signature(properties, required)
    IN IF ~ExecAccepts(tool_name, signature) THEN Raise("SyntaxError")
       ELSE Return([tool_name |-> tool_name.s,
                    properties |-> properties,
                    tool_param_mapping |-> ToolParamMapping(tool_name.s, properties),
                    signature |-> signature])

----------------------------------------------------------------------------
(* _load_mcp_tools_via_http, agent.py:546-580 *)

\* agent.py:566-570: the loop; an exception ends it and the handler of lines
\* 575-578 leaves the adapters built so far in `tools`
RECURSIVE LoadLoop(_, _)
LoadLoop(tools_list, tools) ==
    IF tools_list = <<>> THEN tools
    ELSE LET tool == Head(tools_list)
         IN IF tool.t # "dict" THEN tools
            ELSE LET tool_name == Get(tool, "name", None)
                 IN IF ~Truthy(tool_name) THEN LoadLoop(Tail(tools_list), tools)
                    ELSE LET created == _create_mcp_tool_function(tool_name, tool)
                         IN IF created.kind = "raise" THEN tools
                            ELSE LoadLoop(Tail(tools_list), Append(tools, created.v))

\* agent.py:549-580, for the outcome c of the tools/list call
_load_mcp_tools_via_http(c) ==
    IF c.kind = "raise" THEN <<>>
    ELSE IF ~SupportsIn(c.v) THEN <<>>
    ELSE IF In("error", c.v) THEN <<>>
    ELSE IF c.v.t # "dict" THEN <<>>
    ELSE LET tools_list == Get(c.v, "tools", PList(<<>>))
         IN IF ~Truthy(tools_list) THEN <<>>
            ELSE IF tools_list.t # "list" THEN <<>>
            ELSE LoadLoop(tools_list.xs, <<>>)

----------------------------------------------------------------------------
(* The answers the server and the network give in this model *)

\* tool descriptors as tools/list returns them
Schema(type) == PDict("type" :> PStr(type))
SchemaWithDefault(type, default) == PDict(("type" :> PStr(type)) @@ ("default" :> default))
Descriptor(name, props, required) ==
    PDict(("name" :> name) @@ ("description" :> PStr("..."))
          @@ ("inputSchema" :> PDict(("type" :> PStr("object")) @@ ("properties" :> OD(props))
                                     @@ ("required" :> PList(required)))))

PriceBoard ==
    Descriptor(PStr("get_price_board"),
               <<<<"symbols", PDict(("type" :> PStr("array")) @@ ("items" :> Schema("string")))>>>>,
               <<PStr("symbols")>>)
CompanyOverview ==
    Descriptor(PStr("company_overview"), <<<<"symbol", Schema("string")>>>>, <<PStr("symbol")>>)
\* required first, then a defaulted and a nullable parameter
QuoteHistory ==
    Descriptor(PStr("quote_history"),
               <<<<"symbol", Schema("string")>>,
                 <<"interval", SchemaWithDefault("string", PStr("1D"))>>,
                 <<"limit", Schema("integer")>>>>,
               <<PStr("symbol")>>)
\* an optional parameter declared before a required one
FundNav ==
    Descriptor(PStr("fund_nav"),
               <<<<"limit", Schema("integer")>>, <<"symbol", Schema("string")>>>>,
               <<PStr("symbol")>>)
\* as FundNav, the required parameter having a default
FundListing ==
    Descriptor(PStr("fund_listing"),
               <<<<"limit", Schema("integer")>>,
                 <<"fund_type", SchemaWithDefault("string", PStr("STOCK"))>>>>,
               <<PStr("fund_type")>>)
\* a parameter named like a Python keyword
ExchangeRate ==
    Descriptor(PStr("exchange_rate"), <<<<"from", Schema("string")>>>>, <<PStr("from")>>)
\* a tool name that is no Python identifier
GoldPrice == Descriptor(PStr("gold-price"), <<>>, <<>>)
Nameless == PDict("description" :> PStr("..."))
EmptyName == Descriptor(PStr(""), <<>>, <<>>)
NoSchema == PDict("name" :> PStr("list_symbols"))

ToolsResult(descriptors) == PDict("tools" :> PList(descriptors))

RpcDocs ==
    {ResultEnvelope(ContentAB), ResultEnvelope(None),
     ResultEnvelope(ToolsResult(<<PriceBoard, CompanyOverview>>)),
     ResultEnvelope(ToolsResult(<<FundNav, PriceBoard>>)),
     ErrorEnvelope(PStr("boom")), PDict(<<>>), PDict("jsonrpc" :> PStr("2.0")),
     PList(<<PInt(1)>>), PInt(5)}
    \cup {ErrorEnvelope(e) : e \in ErrorObjects}

RpcBodies ==
    {JsonBody(JsonText(d)) : d \in RpcDocs}
    \cup {JsonBody(BadJson), SseBody(<<OtherLine>>),
          SseBody(<<OtherLine, DataLine(JsonText(ResultEnvelope(ContentAB)))>>),
          SseBody(<<OtherLine, DataLine(JsonText(ErrorEnvelope(ErrorObject("boom", 7))))>>),
          SseBody(<<DataLine(BadJson), DataLine(JsonText(ResultEnvelope(ContentAB)))>>)}

RpcResponses ==
    {PostRaises}
    \cup {Response(st, None, "application/json", NoBody) : st \in ErrorStatuses}
    \cup {Response(202, None, "application/json", JsonBody(JsonText(ResultEnvelope(ContentAB))))}
    \cup {Response(200, None, ct, b) : ct \in ContentTypes, b \in RpcBodies}

InitBodies ==
    {JsonBody(JsonText(ResultEnvelope(PDict(<<>>)))), JsonBody(BadJson),
     JsonBody(JsonText(ErrorEnvelope(ErrorObject("boom", 7)))),
     JsonBody(JsonText(ErrorEnvelope(PStr("boom")))),
     JsonBody(JsonText(PInt(5))),
     SseBody(<<OtherLine, DataLine(JsonText(ResultEnvelope(PDict(<<>>))))>>),
     SseBody(<<DataLine(JsonText(ErrorEnvelope(ErrorObject("boom", 7))))>>)}

InitResponses ==
    {PostRaises}
    \cup {Response(st, None, "application/json", NoBody) : st \in ErrorStatuses \cup {202}}
    \cup {Response(200, h, "application/json", NoBody) : h \in SidHeaders \ SessionIds}
    \cup {Response(200, h, IF b.sse THEN "text/event-stream; charset=utf-8" ELSE "application/json", b) :
            h \in SessionIds, b \in InitBodies}

NotifyAnswers ==
    {PostRaises, Response(202, None, "application/json", NoBody),
     Response(500, None, "application/json", NoBody)}

Methods == {"tools/list", "tools/call"}
ToolNames == {"get_price_board", "company_overview"}

----------------------------------------------------------------------------
(* The operations *)

Unset == [t |-> "unset"]
NoOp == [name |-> "none", method |-> "", tool |-> "", had_session |-> FALSE]
Post(payload, ep, sid, r) == [payload |-> payload, endpoint |-> ep, sid |-> sid, resp |-> r]

InitPosts(ps) == {i \in 1..Len(ps) : ps[i].payload = "initialize"}

\* what is kept of an operation once the next one starts
Summary ==
    [name |-> op.name,
     handle |-> IF op.name = "initialize" /\ ret.kind = "return" THEN ret.v ELSE None,
     inits |-> Cardinality(InitPosts(posts))]

McpInit ==
    /\ _mcp_session_id = None
    /\ pc = "idle"
    /\ op = NoOp
    /\ endpoint = 1
    /\ session_id = None
    /\ posts = <<>>
    /\ result = Unset
    /\ ret = Running
    /\ prev = [name |-> "none", handle |-> None, inits |-> 0]

\* how the operation o ends once _call_mcp_jsonrpc is left with outcome c
Complete(o, c) ==
    IF c.kind = "raise"
    THEN (IF o.name = "load" THEN Return(PList(_load_mcp_tools_via_http(c))) ELSE c)
    ELSE CASE o.name = "call" -> c
           [] o.name = "tool" -> tool_function(o.tool, c.v)
           [] o.name = "load" -> Return(PList(_load_mcp_tools_via_http(c)))

\* _call_mcp_jsonrpc is left with outcome c
CallReturn(c) ==
    /\ result' = IF c.kind = "return" THEN c.v ELSE Unset
    /\ ret' = Complete(op, c)
    /\ pc' = "idle"

\* _initialize_mcp_session returns v: to the top level, or to
\* _call_mcp_jsonrpc (agent.py:186-191)
HandshakeReturn(v) ==
    IF op.name = "initialize"
    THEN ret' = Return(v) /\ pc' = "idle" /\ UNCHANGED <<result, endpoint>>
    ELSE IF ~Truthy(v)
    THEN CallReturn(Return(InitFailedError(op.method))) /\ UNCHANGED endpoint
    ELSE pc' = "call" /\ endpoint' = 1 /\ UNCHANGED <<result, ret>>

\* the variables of the other specifications
Others == <<argsVars, adapterVars, catalogVars, appVars, extVars>>

Begin(o) ==
    /\ pc = "idle"
    /\ UNCHANGED Others
    /\ prev' = Summary
    /\ op' = o
    /\ posts' = <<>>
    /\ result' = Unset
    /\ session_id' = None
    /\ UNCHANGED _mcp_session_id

\* agent.py:71-76: a call of _initialize_mcp_session from the top level (625)
_initialize_mcp_session ==
    /\ Begin([name |-> "initialize", method |-> "", tool |-> "",
              had_session |-> Truthy(_mcp_session_id)])
    /\ endpoint' = 1
    /\ IF HasSession(_mcp_session_id)
       THEN ret' = Return(_mcp_session_id) /\ pc' = "idle"
       ELSE ret' = Running /\ pc' = "initialize"

\* agent.py:96-144: one POST of the initialize payload and what follows it
initialize_post ==
    /\ pc = "initialize"
    /\ \E r \in InitResponses :
        LET a == InitializeAnswer(r, endpoint) IN
        /\ posts' = Append(posts, Post("initialize", endpoints_to_try[endpoint], None, r))
        /\ CASE a.kind = "continue" ->
                  /\ endpoint' = endpoint + 1
                  /\ UNCHANGED <<_mcp_session_id, pc, session_id, result, ret>>
             [] a.kind = "return_none" ->
                  /\ HandshakeReturn(None)
                  /\ UNCHANGED <<_mcp_session_id, session_id>>
             [] a.kind = "cache" ->
                  /\ _mcp_session_id' = a.sid
                  /\ session_id' = a.sid
                  /\ pc' = "initialized"
                  /\ UNCHANGED <<endpoint, result, ret>>
    /\ UNCHANGED <<op, prev, Others>>

\* mutant: a notification that could not be sent fails the handshake
NotifyOutcome_fails(r, sid) == IF r.raised THEN None ELSE sid

\* agent.py:148-160: the answer r of the notification is not read and an
\* exception of its POST is only logged; the handshake returns session_id
NotifyOutcome(r, sid) == sid

\* agent.py:147-160: the notification, whose failure is only logged
initialized_notification ==
    /\ pc = "initialized"
    /\ \E r \in NotifyAnswers :
        /\ posts' = Append(posts, Post("notifications/initialized",
                                       endpoints_to_try[endpoint], session_id, r))
        /\ HandshakeReturn(NotifyOutcome(r, session_id))
    /\ UNCHANGED <<_mcp_session_id, session_id, op, prev, Others>>

\* agent.py:178-191: entry of an operation that calls _call_mcp_jsonrpc
StartCall(o) ==
    /\ Begin(o)
    /\ endpoint' = 1
    /\ ret' = Running
    /\ pc' = IF HasSession(_mcp_session_id) THEN "call" ELSE "initialize"

_call_mcp_jsonrpc ==
    \E m \in Methods :
        StartCall([name |-> "call", method |-> m, tool |-> "",
                   had_session |-> Truthy(_mcp_session_id)])

\* agent.py:490-494: the generated adapter calls tools/call
InvokeTool ==
    \E t \in ToolNames :
        StartCall([name |-> "tool", method |-> "tools/call", tool |-> t,
                   had_session |-> Truthy(_mcp_session_id)])

\* agent.py:551: the catalog loader calls tools/list
LoadCatalog ==
    StartCall([name |-> "load", method |-> "tools/list", tool |-> "",
               had_session |-> Truthy(_mcp_session_id)])

\* agent.py:205-262: one POST of the envelope and what follows it
call_post ==
    /\ pc = "call"
    /\ \E r \in RpcResponses :
        LET a == CallAnswer(r, endpoint, op.method) IN
        /\ posts' = Append(posts, Post(op.method, endpoints_to_try[endpoint],
                                       _mcp_session_id, r))
        /\ IF a.kind = "continue"
           THEN endpoint' = endpoint + 1 /\ UNCHANGED <<pc, result, ret>>
           ELSE CallReturn(CallOutcome(a, op.method)) /\ UNCHANGED endpoint
    /\ UNCHANGED <<_mcp_session_id, session_id, op, prev, Others>>

McpNext ==
    \/ _initialize_mcp_session
    \/ initialize_post
    \/ initialized_notification
    \/ _call_mcp_jsonrpc
    \/ InvokeTool
    \/ LoadCatalog
    \/ call_post

----------------------------------------------------------------------------
(* _process_arguments applied to the arguments a caller may supply *)

MaxKwargs == 2

ArgKeys == {"symbol", "symbols", "stocks", "stock", "symbol_list", "limit"}
VNM == PStr("VNM")
VNM_FPT == PList(<<PStr("VNM"), PStr("FPT")>>)
ArgValues == {VNM, VNM_FPT, PList(<<>>), PInt(5), None}

\* keyword arguments: at most MaxKwargs of them, with distinct names
KwargsPool ==
    {OD(ps) : ps \in {q \in UNION {[1..n -> ArgKeys \X ArgValues] : n \in 0..MaxKwargs} :
                        \A i, j \in 1..Len(q) : i # j => q[i][1] # q[j][1]}}

PropertiesPool ==
    {OD(<<<<"symbols", PDict(("type" :> PStr("array")) @@ ("items" :> Schema("string")))>>>>),
     OD(<<<<"symbols", Schema("string")>>>>),
     OD(<<<<"symbols", PDict("type" :> PList(<<PStr("array"), PStr("null")>>))>>>>),
     OD(<<<<"symbols", PDict(<<>>)>>>>),
     OD(<<<<"symbols", Schema("array")>>, <<"limit", Schema("integer")>>>>),
     OD(<<<<"symbol", Schema("string")>>>>),
     OD(<<<<"symbol", Schema("string")>>, <<"symbols", Schema("array")>>>>),
     OD(<<<<"limit", Schema("string")>>>>),
     OD(<<>>)}

ArgsParked ==
    /\ adapter_tool = "" /\ adapter_properties = OD(<<>>)
    /\ call_kwargs = OD(<<>>) /\ processed_kwargs = Unset

\* an adapter of a tool is about to process the arguments of a call
ArgsInit ==
    /\ adapter_tool \in ToolNames /\ adapter_properties \in PropertiesPool
    /\ call_kwargs \in KwargsPool /\ processed_kwargs = Unset

\* agent.py:484
ProcessArguments ==
    /\ processed_kwargs = Unset
    /\ processed_kwargs' =
          _process_arguments(adapter_tool, adapter_properties,
                             ToolParamMapping(adapter_tool, adapter_properties), call_kwargs)
    /\ UNCHANGED <<adapter_tool, adapter_properties, call_kwargs>>
    /\ UNCHANGED <<mcpVars, extVars, adapterVars, catalogVars, appVars>>

----------------------------------------------------------------------------
(* The adapter's handling of what _call_mcp_jsonrpc returned *)

MaxItems == 2

ContentItems ==
    {TextItem("A"), TextItem("B"),
     PDict(("type" :> PStr("image")) @@ ("data" :> PStr("..."))),
     PDict("type" :> PStr("text")),
     PDict("text" :> PStr("C")),
     PDict(("type" :> PStr("text")) @@ ("text" :> PInt(5))),
     PStr("raw")}

Contents ==
    {PList(xs) : xs \in UNION {[1..n -> ContentItems] : n \in 0..MaxItems}}
    \cup {PStr("plain"), None}

\* results of tools/call: with or without content, with or without text
ToolResults ==
    {PDict("content" :> c) : c \in Contents}
    \cup {PDict(("content" :> c) @@ ("text" :> PStr("T"))) : c \in Contents}
    \cup {PDict("text" :> PStr("T")), PDict("rows" :> PInt(5)), PDict(<<>>),
          PDict(("error" :> PStr("boom")) @@ ("code" :> PInt(7)) @@ ("method" :> PStr("tools/call"))),
          InitFailedError("tools/call"), None, PList(<<PStr("content")>>), PStr("text"), PInt(5)}

AdapterParked == call_result = Unset /\ tool_output = Running

\* _call_mcp_jsonrpc has returned call_result to the adapter of a tool
AdapterInit ==
    /\ adapter_tool \in ToolNames /\ adapter_properties = OD(<<>>)
    /\ call_kwargs = OD(<<>>) /\ processed_kwargs = Unset
    /\ call_result \in ToolResults /\ tool_output = Running

\* agent.py:496-522
ToolFunction ==
    /\ tool_output = Running
    /\ tool_output' = tool_function(adapter_tool, call_result)
    /\ UNCHANGED <<call_result, mcpVars, extVars, argsVars, catalogVars, appVars>>

----------------------------------------------------------------------------
(* The catalog loader's handling of what tools/list returned *)

MaxTools == 2

DescriptorPool ==
    {PriceBoard, CompanyOverview, QuoteHistory, FundNav, FundListing, ExchangeRate,
     GoldPrice, Nameless, EmptyName, NoSchema, PStr("get_price_board")}

ListResults ==
    {ToolsResult(ds) : ds \in UNION {[1..n -> DescriptorPool] : n \in 0..MaxTools}}
    \cup {PDict(<<>>), PDict("tools" :> None), PDict("tools" :> PStr("none")),
          InitFailedError("tools/list"), None, PList(<<PriceBoard>>), PInt(5)}

CatalogParked == list_result = Unset /\ loaded_tools = Unset

\* _call_mcp_jsonrpc has returned list_result to the catalog loader
CatalogInit == list_result \in ListResults /\ loaded_tools = Unset

\* agent.py:553-580
LoadTools ==
    /\ loaded_tools = Unset
    /\ loaded_tools' = PList(_load_mcp_tools_via_http(Return(list_result)))
    /\ UNCHANGED <<list_result, mcpVars, extVars, argsVars, adapterVars, appVars>>

----------------------------------------------------------------------------
(* Texts.  A Python str is a string here, one character per element.  The
   notation has no letters of Latin Extended-A in strings, so the letters
   đ, Đ, ă, ĩ, ũ are written with the stand-ins ð, Ð, å, ï, ü, which occur
   nowhere else. *)

Char(s, i) == SubSeq(s, i, i)
HasChar(c, chars) == \E i \in 1..Len(chars) : Char(chars, i) = c

\* str.lower(), for the letters used in this model
UpperChars == "ABCDEFGHIJKLMNOPQRSTUVWXYZÁÀÂÊÔƠƯÐẾỆỪỔ"
LowerChars == "abcdefghijklmnopqrstuvwxyzáàâêôơưðếệừổ"
LowerChar(c) ==
    IF HasChar(c, UpperChars)
    THEN Char(LowerChars, CHOOSE i \in 1..Len(UpperChars) : Char(UpperChars, i) = c)
    ELSE c
RECURSIVE Lower(_)
Lower(s) == IF s = "" THEN "" ELSE LowerChar(Char(s, 1)) \o Lower(SubSeq(s, 2, Len(s)))

\* a keyword of kws occurs in text
AnyIn(kws, text) == \E i \in 1..Len(kws) : IsSubstr(kws[i], text)

\* the characters of this model that the regex class \w does not match
NonWordChars == " \t\n?!.,:;-+/()"
WhitespaceChars == " \t\n"
IsWordChar(c) == ~HasChar(c, NonWordChars)
AsciiUpper == "ABCDEFGHIJKLMNOPQRSTUVWXYZ"

\* the maximal runs of word characters of text, in order
RECURSIVE WordRuns(_, _, _)
WordRuns(text, cur, acc) ==
    IF text = "" THEN (IF cur = "" THEN acc ELSE Append(acc, cur))
    ELSE LET c == Char(text, 1)
             rest == SubSeq(text, 2, Len(text))
         IN IF IsWordChar(c) THEN WordRuns(rest, cur \o c, acc)
            ELSE WordRuns(rest, "", IF cur = "" THEN acc ELSE Append(acc, cur))

\* re.findall(r"\b([A-Z]{3,4})\b", text): a match starts and ends at a word
\* boundary, so it is a whole run of word characters made of 3 or 4 letters
\* A-Z
IsSymbolToken(w) ==
    Len(w) \in {3, 4} /\ \A i \in 1..Len(w) : HasChar(Char(w, i), AsciiUpper)
FindSymbols(text) == SelectSeq(WordRuns(text, "", <<>>), IsSymbolToken)

----------------------------------------------------------------------------
(* The UI schemas, src/app/schemas/ui.py, and the constructors of the
   pydantic models: a model built from a mapping that lacks a required field
   raises ValidationError *)

BuyFlowStep(id, title) == [id |-> id, title |-> title]
StockDetailData_required == {"symbol", "name", "price", "changePercent", "intradayChart"}
StockDetailData(data) ==
    IF StockDetailData_required \subseteq DOMAIN data THEN Return(data)
    ELSE Raise("ValidationError")
BuyStockData(symbol, currentPrice, steps) ==
    [symbol |-> symbol, currentPrice |-> currentPrice, steps |-> steps]
ShowMarketOverviewInstruction == [type |-> "SHOW_MARKET_OVERVIEW"]
OpenBuyStockInstruction(payload) == [type |-> "OPEN_BUY_STOCK", payload |-> payload]
OpenStockDetailInstruction(payload) ==
    LET data == StockDetailData(payload)
    IN IF data.kind = "raise" THEN data
       ELSE Return([type |-> "OPEN_STOCK_DETAIL", payload |-> data.v])

----------------------------------------------------------------------------
(* src/app/services/ui_parser.py *)

\* ui_parser.py:18-33
extract_symbol_from_text(text) ==
    LET matches == FindSymbols(text)
    IN IF matches # <<>> THEN PStr(matches[1]) ELSE None

market_keywords == <<"tổng quan", "market overview", "thị trường chung", "vnindex">>
buy_keywords == <<"mua", "buy", "ðặt lệnh", "order">>
detail_keywords == <<"chi tiết", "detail", "thông tin", "báo cáo", "phân tích">>
BuyFlow ==
    <<BuyFlowStep("choose_volume", "Chọn khối lượng"),
      BuyFlowStep("choose_price", "Chọn giá ðặt lệnh"),
      BuyFlowStep("confirm", "Xác nhận lệnh")>>

\* ui_parser.py:56-59
MarketEffects(reply_lower, query_lower) ==
    IF AnyIn(market_keywords, query_lower) \/ AnyIn(market_keywords, reply_lower)
    THEN <<ShowMarketOverviewInstruction>> ELSE <<>>

\* the symbol of the query taken before the one of the reply
BuyEffects_query_first(reply, query, query_lower) ==
    IF AnyIn(buy_keywords, query_lower)
    THEN LET fromQuery == extract_symbol_from_text(query)
             symbol == IF Truthy(fromQuery) THEN fromQuery ELSE extract_symbol_from_text(reply)
         IN IF Truthy(symbol)
            THEN <<OpenBuyStockInstruction(BuyStockData(symbol.s, "0.0", BuyFlow))>>
            ELSE <<>>
    ELSE <<>>

\* ui_parser.py:61-78; 0.0 is written "0.0"
BuyEffects(reply, query, query_lower) ==
    IF AnyIn(buy_keywords, query_lower)
    THEN LET fromReply == extract_symbol_from_text(reply)
             symbol == IF Truthy(fromReply) THEN fromReply ELSE extract_symbol_from_text(query)
         IN IF Truthy(symbol)
            THEN <<OpenBuyStockInstruction(BuyStockData(symbol.s, "0.0", BuyFlow))>>
            ELSE <<>>
    ELSE <<>>

\* ui_parser.py:80-84: the effect, nothing, or the ValidationError of the
\* payload
DetailEffects(query, query_lower) ==
    LET symbol == extract_symbol_from_text(query)
    IN IF Truthy(symbol) /\ AnyIn(detail_keywords, query_lower)
       THEN LET built == OpenStockDetailInstruction([symbol |-> symbol.s])
            IN IF built.kind = "raise" THEN built ELSE Return(<<built.v>>)
       ELSE Return(<<>>)

\* ui_parser.py:36-86
parse_ui_effects(reply, query) ==
    LET reply_lower == Lower(reply)
        query_lower == Lower(query)
        detail == DetailEffects(query, query_lower)
    IN IF detail.kind = "raise" THEN detail
       ELSE Return(MarketEffects(reply_lower, query_lower)
                   \o BuyEffects(reply, query, query_lower) \o detail.v)

\* the price rule tried before the others
extract_intent_price_first(reply, query) ==
    LET query_lower == Lower(query)
    IN IF AnyIn(<<"giá", "price">>, query_lower) THEN PStr("price_query")
       ELSE IF AnyIn(<<"tổng quan", "market overview", "vnindex">>, query_lower)
         THEN PStr("market_overview")
       ELSE IF AnyIn(<<"mua", "buy", "ðặt lệnh">>, query_lower) THEN PStr("buy_stock")
       ELSE IF AnyIn(<<"chi tiết", "detail", "thông tin chi tiết">>, query_lower)
         THEN PStr("stock_detail")
       ELSE None

\* ui_parser.py:89-115
extract_intent(reply, query) ==
    LET query_lower == Lower(query)
    IN IF AnyIn(<<"tổng quan", "market overview", "vnindex">>, query_lower)
         THEN PStr("market_overview")
       ELSE IF AnyIn(<<"mua", "buy", "ðặt lệnh">>, query_lower) THEN PStr("buy_stock")
       ELSE IF AnyIn(<<"chi tiết", "detail", "thông tin chi tiết">>, query_lower)
         THEN PStr("stock_detail")
       ELSE IF AnyIn(<<"giá", "price">>, query_lower) THEN PStr("price_query")
       ELSE None

----------------------------------------------------------------------------
(* src/app/services/suggestion.py; the icon of a suggestion is left out *)

SuggestionMessage(text, action) == [text |-> text, action |-> action]

\* suggestion.py:33-40
HistorySuggestion(reply_lower) ==
    IF AnyIn(<<"giá hiện tại", "giá hôm nay", "current price">>, reply_lower)
    THEN <<SuggestionMessage("Xem lịch sử giá 1 tháng qua", "query:lịch sử giá")>>
    ELSE <<>>

\* suggestion.py:44-51
CompareSuggestion(symbols, intent) ==
    IF Len(symbols) = 1 /\ intent = PStr("price_query")
    THEN <<SuggestionMessage("So sánh " \o symbols[1] \o " với mã khác",
                             "query:so sánh " \o symbols[1])>>
    ELSE <<>>

\* the financial report never suggested
ReportSuggestion_never(symbols, intent) == <<>>

\* suggestion.py:54-61
ReportSuggestion(symbols, intent) ==
    IF intent = PStr("price_query") /\ symbols # <<>>
    THEN <<SuggestionMessage("Xem báo cáo tài chính", "query:báo cáo tài chính")>>
    ELSE <<>>

\* suggestion.py:64-72
BuySuggestion(symbols, reply_lower, query_lower) ==
    IF AnyIn(<<"giá", "price">>, reply_lower) /\ ~IsSubstr("mua", query_lower)
       /\ symbols # <<>> /\ Len(symbols) = 1
    THEN <<SuggestionMessage("Mua " \o symbols[1], "buy:" \o symbols[1])>>
    ELSE <<>>

\* mutant: the market overview is suggested for any number of symbols
MarketSuggestion_any_symbols(symbols, intent) ==
    IF symbols # <<>> /\ intent # PStr("market_overview")
    THEN <<SuggestionMessage("Xem tổng quan thị trường", "query:tổng quan thị trường")>>
    ELSE <<>>

\* suggestion.py:75-82
MarketSuggestion(symbols, intent) ==
    IF symbols # <<>> /\ Len(symbols) = 1 /\ intent # PStr("market_overview")
    THEN <<SuggestionMessage("Xem tổng quan thị trường", "query:tổng quan thị trường")>>
    ELSE <<>>

\* suggestion.py:85-92
NewsSuggestion(symbols, intent) ==
    IF intent = PStr("stock_detail") /\ symbols # <<>>
    THEN <<SuggestionMessage("Xem tin tức " \o symbols[1], "query:tin tức " \o symbols[1])>>
    ELSE <<>>

HelpSuggestion == SuggestionMessage("Tôi có thể hỏi gì khác?", "help")

\* the whole list returned
FirstThree_uncapped(s) == s

\* suggestion.py:105: suggestions[:3]
FirstThree(s) == SubSeq(s, 1, IF Len(s) < 3 THEN Len(s) ELSE 3)

\* suggestion.py:11-105
generate_suggestions(reply, query, intent) ==
    LET reply_lower == Lower(reply)
        query_lower == Lower(query)
        symbols == FindSymbols(query)
        suggestions ==
            HistorySuggestion(reply_lower) \o CompareSuggestion(symbols, intent)
            \o ReportSuggestion(symbols, intent)
            \o BuySuggestion(symbols, reply_lower, query_lower)
            \o MarketSuggestion(symbols, intent) \o NewsSuggestion(symbols, intent)
    IN FirstThree(IF suggestions = <<>> THEN <<HelpSuggestion>> ELSE suggestions)

----------------------------------------------------------------------------
(* src/app/schemas/chat.py: ChatRequest.validate_vietnamese_messages *)

ChatMessage(role, content) == [role |-> role, content |-> content]

\* chat.py:56, 68: the letters of the pattern
LetterPattern ==
    "abcdefghijklmnopqrstuvwxyzABCDEFGHIJKLMNOPQRSTUVWXYZ"
    \o "àáảãạåắằẳẵặâấầẩẫậèéẻẽẹêếềểễệìíỉïịòóỏõọôốồổỗộơớờởỡợùúủüụưứừửữựỳýỷỹỵðÐ"

IsWhitespace(c) == HasChar(c, WhitespaceChars)

\* str.strip()
RECURSIVE LStrip(_)
LStrip(s) ==
    IF s # "" /\ IsWhitespace(Char(s, 1)) THEN LStrip(SubSeq(s, 2, Len(s))) ELSE s
RECURSIVE RStrip(_)
RStrip(s) ==
    IF s # "" /\ IsWhitespace(Char(s, Len(s))) THEN RStrip(SubSeq(s, 1, Len(s) - 1)) ELSE s
Strip(s) == RStrip(LStrip(s))

\* re.sub(r"\s+", " ", s)
RECURSIVE CollapseWhitespace(_)
CollapseWhitespace(s) ==
    IF s = "" THEN ""
    ELSE IF IsWhitespace(Char(s, 1))
         THEN " " \o CollapseWhitespace(LStrip(s))
         ELSE Char(s, 1) \o CollapseWhitespace(SubSeq(s, 2, Len(s)))

\* len(re.findall(pattern, content))
letter_count(content) ==
    Cardinality({i \in 1..Len(content) : HasChar(Char(content, i), LetterPattern)})
\* len(content.replace(" ", ""))
total_chars(content) == Cardinality({i \in 1..Len(content) : Char(content, i) # " "})

\* chat.py:37-40
LastUserIndex(v) ==
    LET users == {i \in 1..Len(v) : v[i].role = "user"}
    IN IF users = {} THEN 0 ELSE CHOOSE i \in users : \A j \in users : j <= i

\* chat.py:28-81; letter_count / total_chars < 0.3 is compared in tenths
validate_vietnamese_messages(v) ==
    IF v = <<>> THEN Raise("ValueError")
    ELSE IF LastUserIndex(v) = 0 THEN Raise("ValueError")
    ELSE LET last == LastUserIndex(v)
             stripped == Strip(v[last].content)
             content == CollapseWhitespace(stripped)
         IN IF stripped = "" THEN Raise("ValueError")
            ELSE IF letter_count(content) = 0 THEN Raise("ValueError")
            ELSE IF total_chars(content) > 0
                    /\ 10 * letter_count(content) < 3 * total_chars(content)
                 THEN Raise("ValueError")
            ELSE Return([v EXCEPT ![last].content = content])

----------------------------------------------------------------------------
(* src/app/api/v1/chat.py: the agent run *)

\* an object with attributes
Obj(attrs) == [t |-> "obj", m |-> attrs]
hasattr(o, name) == o.t = "obj" /\ name \in DOMAIN o.m
IsTrue(v) == IF v.t = "obj" THEN TRUE ELSE Truthy(v)

\* chat.py:352-355, 373-376: the text of the first part that has one
RECURSIVE PartsText(_)
PartsText(parts) ==
    IF parts = <<>> THEN None
    ELSE IF hasattr(Head(parts), "text") /\ IsTrue(Head(parts).m["text"])
         THEN Head(parts).m["text"]
         ELSE PartsText(Tail(parts))

\* chat.py:350-355
ContentText(event) ==
    IF hasattr(event, "content") /\ event.m["content"] # None
       /\ hasattr(event.m["content"], "parts") /\ IsTrue(event.m["content"].m["parts"])
    THEN PartsText(event.m["content"].m["parts"].xs)
    ELSE None

\* chat.py:358-359
TextField(event, event_text) ==
    IF ~IsTrue(event_text) /\ hasattr(event, "text") /\ IsTrue(event.m["text"])
    THEN event.m["text"] ELSE event_text

\* chat.py:362-366
MessageField(event, event_text) ==
    IF ~IsTrue(event_text) /\ hasattr(event, "message") /\ IsTrue(event.m["message"])
    THEN LET message == event.m["message"]
         IN IF message.t = "str" THEN message
            ELSE IF hasattr(message, "text") THEN message.m["text"]
            ELSE event_text
    ELSE event_text

\* chat.py:369-378
OwnPartsText(event, event_text) ==
    IF ~IsTrue(event_text) /\ hasattr(event, "parts") /\ IsTrue(event.m["parts"])
    THEN LET found == PartsText(event.m["parts"].xs)
         IN IF found # None THEN found ELSE event_text
    ELSE event_text

\* chat.py:347-378
EventText(event) ==
    OwnPartsText(event, MessageField(event, TextField(event, ContentText(event))))

\* mutant: the first text of the run is kept
RunEvents_keeps_first(events, reply_text, events_dump) ==
    LET texts == SelectSeq([i \in 1..Len(events) |-> EventText(events[i])], IsTrue)
    IN <<IF IsTrue(reply_text) THEN reply_text
         ELSE IF texts # <<>> THEN texts[1] ELSE reply_text,
         events_dump \o [i \in 1..Len(events) |-> [text |-> EventText(events[i])]]>>

\* chat.py:341-394: the loop over the events of the run
RECURSIVE RunEvents(_, _, _)
RunEvents(events, reply_text, events_dump) ==
    IF events = <<>> THEN <<reply_text, events_dump>>
    ELSE LET event_text == EventText(Head(events))
         IN RunEvents(Tail(events),
                      IF IsTrue(event_text) THEN event_text ELSE reply_text,
                      Append(events_dump, [text |-> event_text]))

\* chat.py:330-396.  A run is the events the runner yields and the exception
\* it raises after them, if any.
AgentRun(events, raises) == [events |-> events, raises |-> raises]
Exc(type, text, base) == [type |-> type, text |-> text, base |-> base]
_run_blocking(run) ==
    IF run.raises # None THEN Raise(run.raises)
    ELSE Return(RunEvents(run.events, PStr(""), <<>>))

Apology == PStr("Xin lỗi, ðã có lỗi xảy ra khi xử lý yêu cầu. Vui lòng thử lại.")
\* chat.py:434; its dash is written -
Placeholder ==
    PStr("[DEBUG] Agent không trả về text - kiểm tra raw_agent_output.events ðể debug.")

\* mutant: the exception of the run leaves _run_agent
RunOutcome_propagates(run) == _run_blocking(run)

\* chat.py:411-431: `except Exception` does not catch an exception that
\* derives from BaseException only
RunOutcome(run) ==
    LET ran == _run_blocking(run)
    IN IF ran.kind = "return" THEN ran
       ELSE IF ran.exc.base = "Exception"
       THEN Return(<<Apology, <<[error |-> ran.exc.text, error_type |-> ran.exc.type]>>>>)
       ELSE ran

\* chat.py:411-439, once the session exists
_run_agent(run) ==
    LET out == RunOutcome(run)
    IN IF out.kind = "raise" THEN out
       ELSE Return([reply |-> IF ~IsTrue(out.v[1]) THEN Placeholder ELSE out.v[1],
                    events |-> out.v[2]])

----------------------------------------------------------------------------
(* src/app/api/v1/chat.py: the chat endpoint and the session store *)

MaxTurns == 2

APP_NAME == "vnstock_app"
ChatMetadata(user, session) == [user_id |-> user, session_id |-> session]
ChatRequest(messages, meta) == [messages |-> messages, meta |-> meta]

\* chat.py:402-404
UserId(meta) == IF meta # None THEN meta.user_id ELSE PStr("user-unknown")
SessionId(meta) ==
    LET raw_session_id == IF meta # None THEN meta.session_id ELSE None
    IN IF IsTrue(raw_session_id) THEN raw_session_id ELSE PStr("default-session")

\* the key of a conversation session in the store
SessionKey(user, session) == <<APP_NAME, user, session>>
NoCalls == [get |-> 0, create |-> 0, ensured |-> 0]
CallsOf(key) == IF key \in DOMAIN session_calls THEN session_calls[key] ELSE NoCalls
Stored(key) == IF key \in DOMAIN SESSION_SERVICE THEN SESSION_SERVICE[key] ELSE 0
\* the turns that reached the session store
Turns ==
    LET RECURSIVE Sum(_)
        Sum(keys) == IF keys = {} THEN 0
                     ELSE LET k == CHOOSE x \in keys : TRUE
                          IN session_calls[k].get + Sum(keys \ {k})
    IN Sum(DOMAIN session_calls)

HttpResponse(status, body) == [kind |-> "response", status |-> status, body |-> body]
NoTurn == [messages |-> <<>>, user_message |-> "", user_id |-> None, session_id |-> None,
           run |-> Unset]

\* chat.py:292-297
ChatResponse(reply_text, ui_effects, suggestions, agent_result) ==
    [reply |-> reply_text, ui_effects |-> ui_effects, suggestion_messages |-> suggestions,
     raw_agent_output |-> agent_result]

\* chat.py:280-297: the response built from what _run_agent returned; an
\* exception of the derivation leaves the endpoint, which answers 500
Respond(agent_result, user_message) ==
    LET reply_text == agent_result.reply
        ui_effects == parse_ui_effects(reply_text.s, user_message)
        intent == extract_intent(reply_text.s, user_message)
        suggestions == generate_suggestions(reply_text.s, user_message, intent)
    IN IF ui_effects.kind = "raise" THEN HttpResponse(500, ui_effects.exc)
       ELSE HttpResponse(200, ChatResponse(reply_text, ui_effects.v, suggestions, agent_result))

ChatInit ==
    /\ SESSION_SERVICE = <<>>
    /\ session_calls = <<>>
    /\ chat_pc = "idle"
    /\ chat_turn = NoTurn
    /\ response = Running

\* chat.py:242-278 and the validation of the request body (chat.py of
\* schemas, 28-81): a rejected request is answered 422
chat_request(request) ==
    /\ chat_pc = "idle"
    /\ Turns < MaxTurns
    /\ LET v == validate_vietnamese_messages(request.messages)
       IN IF v.kind = "raise"
          THEN /\ response' = HttpResponse(422, v.exc)
               /\ chat_turn' = NoTurn
               /\ UNCHANGED chat_pc
          ELSE /\ response' = Running
               /\ chat_turn' = [messages |-> v.v,
                                user_message |-> v.v[Len(v.v)].content,
                                user_id |-> UserId(request.meta),
                                session_id |-> SessionId(request.meta),
                                run |-> Unset]
               /\ chat_pc' = "session"
    /\ UNCHANGED <<SESSION_SERVICE, session_calls>>

\* mutant: the session is created without looking it up
EnsureCreates_always(key) == TRUE

\* chat.py:313
EnsureCreates(key) == Stored(key) = 0

\* chat.py:304-319, 406-409: get_session, then create_session when there is
\* no session; either call of the store may fail, and the turn is answered 500
_ensure_session ==
    /\ chat_pc = "session"
    /\ LET key == SessionKey(chat_turn.user_id, chat_turn.session_id)
           c == CallsOf(key)
       IN \E store \in {"ok", "get fails", "create fails"} :
            CASE store = "get fails" ->
                   /\ session_calls' = (key :> [c EXCEPT !.get = @ + 1]) @@ session_calls
                   /\ response' = HttpResponse(500, "Cannot create/get session")
                   /\ chat_pc' = "idle"
                   /\ UNCHANGED SESSION_SERVICE
              [] store = "create fails" ->
                   /\ EnsureCreates(key)
                   /\ session_calls' =
                        (key :> [c EXCEPT !.get = @ + 1, !.create = @ + 1]) @@ session_calls
                   /\ response' = HttpResponse(500, "Cannot create/get session")
                   /\ chat_pc' = "idle"
                   /\ UNCHANGED SESSION_SERVICE
              [] store = "ok" ->
                   /\ IF EnsureCreates(key)
                      THEN /\ SESSION_SERVICE' = (key :> Stored(key) + 1) @@ SESSION_SERVICE
                           /\ session_calls' =
                                (key :> [c EXCEPT !.get = @ + 1, !.create = @ + 1,
                                                  !.ensured = @ + 1]) @@ session_calls
                      ELSE /\ UNCHANGED SESSION_SERVICE
                           /\ session_calls' =
                                (key :> [c EXCEPT !.get = @ + 1, !.ensured = @ + 1])
                                @@ session_calls
                   /\ chat_pc' = "run"
                   /\ UNCHANGED response
    /\ UNCHANGED chat_turn

\* chat.py:276-297, 411-439: the agent runs and the response is built
run_agent(run) ==
    /\ chat_pc = "run"
    /\ chat_turn' = [chat_turn EXCEPT !.run = run]
    /\ LET agent_result == _run_agent(run)
       IN response' = IF agent_result.kind = "raise" THEN agent_result
                      ELSE Respond(agent_result.v, chat_turn.user_message)
    /\ chat_pc' = "idle"
    /\ UNCHANGED <<SESSION_SERVICE, session_calls>>

----------------------------------------------------------------------------
(* What the clients send and what the agent does in this model *)

TextPart(text) == Obj("text" :> text)
ContentEvent(parts) == Obj("content" :> Obj("parts" :> PList(parts)))
ReplyEvent(text) == ContentEvent(<<TextPart(PStr(text))>>)
ValueError == Exc("ValueError", "model overloaded", "Exception")
KeyboardInterrupt == Exc("KeyboardInterrupt", "", "BaseException")

PriceReply == "Giá hiện tại của VNM là 50.0"
ChatRuns ==
    {AgentRun(<<>>, None),
     AgentRun(<<ReplyEvent(PriceReply)>>, None),
     AgentRun(<<ReplyEvent("Tổng quan thị trường"), ContentEvent(<<>>)>>, None),
     AgentRun(<<ReplyEvent(PriceReply)>>, ValueError),
     AgentRun(<<>>, KeyboardInterrupt)}

ChatMessagesPool ==
    {<<ChatMessage("user", "Giá VNM hôm nay?")>>,
     <<ChatMessage("user", "Mình muốn mua MWG")>>,
     <<ChatMessage("user", "Thông tin chi tiết VNM")>>,
     <<ChatMessage("user", " Giá  FPT "), ChatMessage("assistant", "Giá FPT là 100")>>,
     <<ChatMessage("user", "12345!!!")>>,
     <<>>}
ChatMetaPool ==
    {None, ChatMetadata(PStr("u1"), PStr("s1")), ChatMetadata(PStr("u1"), None),
     ChatMetadata(None, PStr("s1"))}
RequestPool == {ChatRequest(m, meta) : m \in ChatMessagesPool, meta \in ChatMetaPool}


ChatParked ==
    /\ SESSION_SERVICE = <<>> /\ session_calls = <<>> /\ chat_pc = "parked"
    /\ chat_turn = NoTurn /\ response = Running

\* the other groups of variables, seen from the chat endpoint
NotChat == <<mcpVars, extVars, argsVars, adapterVars, catalogVars, runVars, classifyVars, validateVars>>

chat == (\E request \in RequestPool : chat_request(request)) /\ UNCHANGED NotChat
ensure_session == _ensure_session /\ UNCHANGED NotChat
run_turn == (\E run \in ChatRuns : run_agent(run)) /\ UNCHANGED NotChat

----------------------------------------------------------------------------
(* _run_agent applied to the runs an agent may make *)

MaxEvents == 2

EventPool ==
    {ReplyEvent("A"),
     ContentEvent(<<Obj(<<>>), TextPart(PStr("")), TextPart(PStr("B")), TextPart(PStr("B2"))>>),
     Obj(("content" :> None) @@ ("text" :> PStr("C"))),
     Obj("message" :> PStr("D")),
     Obj("message" :> Obj("text" :> PStr("E"))),
     Obj("parts" :> PList(<<TextPart(None), TextPart(PStr("F"))>>)),
     ContentEvent(<<>>),
     Obj(("content" :> Obj("parts" :> PList(<<TextPart(PStr(""))>>))) @@ ("text" :> PStr("G"))),
     Obj(("message" :> Obj("text" :> None)) @@ ("parts" :> PList(<<TextPart(PStr("H"))>>))),
     Obj(("content" :> Obj("parts" :> PList(<<TextPart(PStr("I"))>>)))
         @@ ("text" :> PStr("J")) @@ ("message" :> PStr("K"))),
     Obj("message" :> Obj("role" :> PStr("model"))),
     Obj(("text" :> PStr("")) @@ ("message" :> PStr(""))),
     Obj(<<>>)}

AgentRuns ==
    {AgentRun(es, r) : es \in UNION {[1..n -> EventPool] : n \in 0..MaxEvents},
                       r \in {None, ValueError, KeyboardInterrupt}}

RunParked == agent_run = Unset /\ run_result = Running
RunInit == agent_run \in AgentRuns /\ run_result = Running

\* chat.py:411-439
RunAgent ==
    /\ run_result = Running
    /\ run_result' = _run_agent(agent_run)
    /\ UNCHANGED <<agent_run, mcpVars, extVars, argsVars, adapterVars, catalogVars, chatVars,
                   classifyVars, validateVars>>

----------------------------------------------------------------------------
(* The classifier applied to the replies and queries of a turn *)

MaxWords == 2

QueryWords == {"Giá", "VNM", "FPT", "mua", "chi tiết", "tổng quan"}
RECURSIVE JoinWords(_)
JoinWords(ws) ==
    IF ws = <<>> THEN ""
    ELSE IF Len(ws) = 1 THEN ws[1]
    ELSE ws[1] \o " " \o JoinWords(Tail(ws))
QueryPool ==
    {JoinWords(ws) : ws \in UNION {[1..n -> QueryWords] : n \in 0..MaxWords}}
    \cup {"Mình muốn mua MWG", "Giá VNM hôm nay?", "Thông tin ABCDE, HPG", "HOSE: VNINDEX",
          "Chi tiết giá FPT", "ÐẶT LỆNH FPT"}
ReplyPool ==
    {"", PriceReply, "Bạn có thể mua MWG ở giá 60", "Tổng quan thị trường hôm nay",
     "Current price: 50"}
IntentPool ==
    {None, PStr("market_overview"), PStr("buy_stock"), PStr("stock_detail"),
     PStr("price_query")}

ClassifyArgs(reply, query, intent) == [reply |-> reply, query |-> query, intent |-> intent]
ClassifyParked == classify_args = Unset /\ classified = Unset
ClassifyInit ==
    /\ classify_args \in {ClassifyArgs(r, q, i) : r \in ReplyPool, q \in QueryPool, i \in IntentPool}
    /\ classified = Unset

\* chat.py:286-290, with any intent handed to generate_suggestions
Classify ==
    /\ classified = Unset
    /\ classified' =
         [ui_effects |-> parse_ui_effects(classify_args.reply, classify_args.query),
          intent |-> extract_intent(classify_args.reply, classify_args.query),
          suggestions |-> generate_suggestions(classify_args.reply, classify_args.query,
                                               classify_args.intent)]
    /\ UNCHANGED <<classify_args, mcpVars, extVars, argsVars, adapterVars, catalogVars, chatVars,
                   runVars, validateVars>>

----------------------------------------------------------------------------
(* The validator applied to the message lists of a request *)

MaxMessages == 2

Roles == {"user", "assistant", "system"}
ContentPool ==
    {"12345!!!", "VNM giá?", " \t ", "Ừ", " abc \t\n !!!!!!! ", "ab!!!!!"}
MessagesPool ==
    UNION {[1..n -> {ChatMessage(r, c) : r \in Roles, c \in ContentPool}] : n \in 0..MaxMessages}

ValidateParked == request_messages = <<>> /\ validated = Running
ValidateInit == request_messages \in MessagesPool /\ validated = Running

\* chat.py (schemas):28-81
Validate ==
    /\ validated = Running
    /\ validated' = validate_vietnamese_messages(request_messages)
    /\ UNCHANGED <<request_messages, mcpVars, extVars, argsVars, adapterVars, catalogVars, chatVars,
                   runVars, classifyVars>>

----------------------------------------------------------------------------
(* VnstockMCP._call_mcp_jsonrpc, vnstock_mcp.py:125-207 *)

\* vnstock_mcp.py:133-137
NotConfiguredError(method) ==
    PDict(("error" :> PStr("HTTP client not configured")) @@ ("method" :> PStr(method))
          @@ ("note" :> PStr("vnstock MCP not configured. Set base_url in tools.yaml")))

\* vnstock_mcp.py:186-190
VnHttpError(status, method, ep) ==
    PDict(("error" :> PStr("HTTP " \o ToString(status) \o ": <body>"))
          @@ ("method" :> PStr(method)) @@ ("endpoint" :> PStr(ep)))

\* vnstock_mcp.py:194-199
VnExceptionError(e, method, ep) ==
    PDict(("error" :> ExcText(e)) @@ ("method" :> PStr(method))
          @@ ("endpoint" :> PStr(ep)) @@ ("note" :> PStr("Failed to call MCP server")))

\* vnstock_mcp.py:203-207
CouldNotConnectError(method) ==
    PDict(("error" :> PStr("Could not connect to MCP server")) @@ ("method" :> PStr(method))
          @@ ("base_url" :> PStr("<base_url>")))

\* vnstock_mcp.py:173-181, for the decoded body res
VnEnvelope(res, method) ==
    IF ~SupportsIn(res) THEN Raise("TypeError")
    ELSE IF In("error", res) THEN
        IF res.t # "dict" THEN Raise("TypeError")
        ELSE IF res.m["error"].t # "dict" THEN Raise("AttributeError")
        ELSE Return(PDict(("error" :> Get(res.m["error"], "message", PStr("Unknown error")))
                          @@ ("code" :> Get(res.m["error"], "code", None))
                          @@ ("method" :> PStr(method))))
    ELSE IF res.t # "dict" THEN Raise("AttributeError")
    ELSE Return(Get(res, "result", res))

\* vnstock_mcp.py:191-201: the handler of every exception other than
\* HTTPStatusError; on the last path the error is returned, on another path
\* the loop goes on
VnException(e, i, method) ==
    IF IsLast(i) THEN Return(VnExceptionError(e, method, endpoints_to_try[i]))
    ELSE Continue

\* One pass of the loop of vnstock_mcp.py:151-201 for the answer r of the
\* POST to endpoints_to_try[i]: Continue, or the value returned.
VnAnswer(r, i, method) ==
    IF r.raised THEN VnException("ConnectError", i, method)
    ELSE IF r.status = 404 /\ ~IsLast(i) THEN Continue
    ELSE IF IsHttpError(r.status) THEN
        (IF r.status = 404 /\ ~IsLast(i) THEN Continue
         ELSE Return(VnHttpError(r.status, method, endpoints_to_try[i])))
    ELSE LET decoded == RespJson(r.body)
         IN IF decoded.kind = "raise" THEN VnException(decoded.exc, i, method)
            ELSE LET o == VnEnvelope(decoded.v, method)
                 IN IF o.kind = "raise" THEN VnException(o.exc, i, method) ELSE o

VnResponses ==
    {PostRaises}
    \cup {Response(st, None, "application/json", NoBody) : st \in ErrorStatuses}
    \cup {Response(200, None, "application/json", b) : b \in RpcBodies}

VnParked ==
    /\ vn_configured = FALSE /\ vn_method = "" /\ vn_pc = "idle"
    /\ vn_endpoint = 1 /\ vn_posts = <<>> /\ vn_ret = Running

VnInit ==
    /\ vn_configured \in BOOLEAN /\ vn_method \in Methods /\ vn_pc = "idle"
    /\ vn_endpoint = 1 /\ vn_posts = <<>> /\ vn_ret = Running

\* vnstock_mcp.py:132-149: entry of VnstockMCP._call_mcp_jsonrpc
vn_call_mcp_jsonrpc ==
    /\ vn_pc = "idle"
    /\ vn_posts' = <<>>
    /\ vn_endpoint' = 1
    /\ IF ~vn_configured
       THEN vn_ret' = Return(NotConfiguredError(vn_method)) /\ vn_pc' = "done"
       ELSE vn_ret' = Running /\ vn_pc' = "post"
    /\ UNCHANGED <<vn_configured, vn_method>>
    /\ UNCHANGED <<mcpVars, argsVars, adapterVars, catalogVars, appVars, invokeVars, threadVars, requestVars>>

\* vnstock_mcp.py:151-207: one POST of the envelope and what follows it
vn_post ==
    /\ vn_pc = "post"
    /\ \E r \in VnResponses :
        LET a == VnAnswer(r, vn_endpoint, vn_method) IN
        /\ vn_posts' = Append(vn_posts, Post(vn_method, endpoints_to_try[vn_endpoint], None, r))
        /\ IF a.kind = "continue"
           THEN IF IsLast(vn_endpoint)
                THEN /\ vn_ret' = Return(CouldNotConnectError(vn_method))
                     /\ vn_pc' = "done" /\ UNCHANGED vn_endpoint
                ELSE vn_endpoint' = vn_endpoint + 1 /\ UNCHANGED <<vn_pc, vn_ret>>
           ELSE vn_ret' = a /\ vn_pc' = "done" /\ UNCHANGED vn_endpoint
    /\ UNCHANGED <<vn_configured, vn_method>>
    /\ UNCHANGED <<mcpVars, argsVars, adapterVars, catalogVars, appVars, invokeVars, threadVars, requestVars>>

----------------------------------------------------------------------------
(* A call of a generated adapter, agent.py:467-494 *)

\* a tool with an optional string and an optional array parameter, both
\* declared without default
StockNews ==
    Descriptor(PStr("stock_news"),
               <<<<"symbol", Schema("string")>>,
                 <<"source", Schema("string")>>,
                 <<"tags", PDict(("type" :> PStr("array")) @@ ("items" :> Schema("string")))>>>>,
               <<PStr("symbol")>>)

InvokeDescriptors == {StockNews, QuoteHistory, CompanyOverview, PriceBoard}
InvokeKeys == {"symbol", "source", "tags", "limit", "interval", "symbols"}
InvokeValues == {VNM, VNM_FPT, PInt(5)}

\* the keyword arguments of the caller: at most MaxKwargs, distinct names
InvokeKwargs ==
    {OD(items) : items \in UNION {[1..n -> InvokeKeys \X InvokeValues] : n \in 0..MaxKwargs}}

DistinctNames(kwargs) ==
    \A i, j \in 1..Len(kwargs.keys) : kwargs.keys[i] = kwargs.keys[j] => i = j

\* Python binds the keyword arguments to the parameters of the signature
\* (agent.py:526: no **kwargs): an unknown name or a missing mandatory
\* parameter raises TypeError; a parameter without argument has its default,
\* which is None for an optional parameter declared without one (459)
RECURSIVE BoundArguments(_, _, _)
BoundArguments(signature, kwargs, acc) ==
    IF signature = <<>> THEN acc
    ELSE LET p == Head(signature)
         IN BoundArguments(Tail(signature), kwargs,
                           SetItem(acc, p.name,
                                   IF p.name \in DOMAIN kwargs.m THEN kwargs.m[p.name]
                                   ELSE p.default))

BindArguments(signature, kwargs) ==
    LET names == {signature[i].name : i \in 1..Len(signature)}
    IN IF \E k \in DOMAIN kwargs.m : k \notin names THEN Raise("TypeError")
       ELSE IF \E i \in 1..Len(signature) :
                  signature[i].mandatory /\ signature[i].name \notin DOMAIN kwargs.m
       THEN Raise("TypeError")
       ELSE Return(BoundArguments(signature, kwargs, OD(<<>>)))

\* mutant: only the arguments of the caller are collected
CollectArguments_supplied(adapter, kwargs) ==
    LET bound == BindArguments(adapter.signature, kwargs)
    IN IF bound.kind = "raise" THEN bound ELSE Return(kwargs)

\* agent.py:471-476: every parameter of the signature is collected from the
\* frame, with the value it is bound to
CollectArguments(adapter, kwargs) == BindArguments(adapter.signature, kwargs)

\* agent.py:471-494: the arguments of the tools/call request
SentArguments(adapter, kwargs) ==
    LET collected == CollectArguments(adapter, kwargs)
    IN IF collected.kind = "raise" THEN collected
       ELSE Return(_process_arguments(adapter.tool_name, adapter.properties,
                                      adapter.tool_param_mapping, collected.v))

InvokeParked == invoke_adapter = Unset /\ invoke_kwargs = OD(<<>>) /\ invoke_sent = Running

InvokeInit ==
    /\ invoke_adapter \in {_create_mcp_tool_function(Get(d, "name", None), d).v :
                              d \in InvokeDescriptors}
    /\ invoke_kwargs \in {k \in InvokeKwargs : DistinctNames(k)}
    /\ invoke_sent = Running

invoke_adapter_call ==
    /\ invoke_sent = Running
    /\ invoke_sent' = SentArguments(invoke_adapter, invoke_kwargs)
    /\ UNCHANGED <<invoke_adapter, invoke_kwargs>>
    /\ UNCHANGED <<mcpVars, argsVars, adapterVars, catalogVars, appVars, vnVars, threadVars, requestVars>>

----------------------------------------------------------------------------
(* Threads that share _mcp_session_id: each runs _initialize_mcp_session or
   _call_mcp_jsonrpc of agent.py; a step is one read or write of the global,
   or one POST with what follows it up to the next access of the global *)

MaxThreads == 2
Threads == 1..MaxThreads

ThreadInitAnswers ==
    {Response(404, None, "application/json", NoBody),
     Response(200, None, "application/json", NoBody)}
    \cup {Response(200, h, "application/json", JsonBody(JsonText(ResultEnvelope(PDict(<<>>))))) :
            h \in SessionIds}
ThreadNotifyAnswers == {PostRaises, Response(202, None, "application/json", NoBody)}
ThreadCallAnswers ==
    {Response(404, None, "application/json", NoBody),
     Response(200, None, "application/json", JsonBody(JsonText(ResultEnvelope(ContentAB))))}

\* a thread before the first line of its function
ThreadStart(name) ==
    [name |-> name, pc |-> "start", endpoint |-> 1, session_id |-> None,
     handle |-> None, sent |-> <<>>, outcome |-> "running"]

\* mutant: the header carries the value the handshake returned to this call
SessionHeader_local(cached, local) == local

\* agent.py:211: the header is read from the global when the POST is built
SessionHeader(cached, local) == cached

ThreadsParked == threads = <<>> /\ writes = <<>>

ThreadsInit ==
    /\ threads \in [Threads -> {ThreadStart(n) : n \in {"initialize", "call"}}]
    /\ writes = <<>>

\* what no step of a thread changes
ThreadFrame ==
    UNCHANGED <<pc, op, endpoint, session_id, posts, result, ret, prev,
                argsVars, adapterVars, catalogVars, appVars, vnVars, invokeVars, requestVars>>

Move(t, fields) == threads' = [threads EXCEPT ![t] = fields @@ threads[t]]

\* the handshake of thread t returns v: to the caller of
\* _initialize_mcp_session, or to _call_mcp_jsonrpc (agent.py:186-191)
ThreadHandshakeReturn(t, v) ==
    IF threads[t].name = "initialize"
    THEN Move(t, [pc |-> "done", handle |-> v, session_id |-> v,
                  outcome |-> IF Truthy(v) THEN "handle" ELSE "none"])
    ELSE IF ~Truthy(v)
    THEN Move(t, [pc |-> "done", handle |-> v, session_id |-> v, outcome |-> "error"])
    ELSE Move(t, [pc |-> "call", endpoint |-> 1, handle |-> v, session_id |-> v])

\* agent.py:185: `if not _mcp_session_id` at the entry of _call_mcp_jsonrpc
thread_enter(t) ==
    /\ threads[t].pc = "start"
    /\ IF threads[t].name = "call" /\ HasSession(_mcp_session_id)
       THEN Move(t, [pc |-> "call", endpoint |-> 1])
       ELSE Move(t, [pc |-> "check"])
    /\ UNCHANGED <<_mcp_session_id, writes>>
    /\ ThreadFrame

\* agent.py:75: `if _mcp_session_id` at the entry of _initialize_mcp_session
thread_check(t) ==
    /\ threads[t].pc = "check"
    /\ IF HasSession(_mcp_session_id)
       THEN Move(t, [pc |-> "cached"])
       ELSE Move(t, [pc |-> "initialize", endpoint |-> 1])
    /\ UNCHANGED <<_mcp_session_id, writes>>
    /\ ThreadFrame

\* agent.py:76: `return _mcp_session_id`, a second read of the global
thread_cached(t) ==
    /\ threads[t].pc = "cached"
    /\ ThreadHandshakeReturn(t, _mcp_session_id)
    /\ UNCHANGED <<_mcp_session_id, writes>>
    /\ ThreadFrame

\* agent.py:96-144: one POST of the initialize payload; line 144 writes the
\* global
thread_initialize_post(t) ==
    /\ threads[t].pc = "initialize"
    /\ \E r \in ThreadInitAnswers :
        LET a == InitializeAnswer(r, threads[t].endpoint) IN
        CASE a.kind = "continue" ->
               /\ Move(t, [endpoint |-> threads[t].endpoint + 1])
               /\ UNCHANGED <<_mcp_session_id, writes>>
          [] a.kind = "return_none" ->
               /\ ThreadHandshakeReturn(t, None)
               /\ UNCHANGED <<_mcp_session_id, writes>>
          [] a.kind = "cache" ->
               /\ _mcp_session_id' = a.sid
               /\ writes' = Append(writes, [thread |-> t, sid |-> a.sid])
               /\ Move(t, [pc |-> "initialized", session_id |-> a.sid])
    /\ ThreadFrame

\* agent.py:147-160: the notification and the return of the handshake
thread_notification(t) ==
    /\ threads[t].pc = "initialized"
    /\ \E r \in ThreadNotifyAnswers :
          ThreadHandshakeReturn(t, NotifyOutcome(r, threads[t].session_id))
    /\ UNCHANGED <<_mcp_session_id, writes>>
    /\ ThreadFrame

\* agent.py:205-262: one POST of the envelope, with the header of line 211
thread_call_post(t) ==
    /\ threads[t].pc = "call"
    /\ \E r \in ThreadCallAnswers :
        LET a == CallAnswer(r, threads[t].endpoint, "tools/call")
            header == SessionHeader(_mcp_session_id, threads[t].session_id)
        IN IF a.kind = "continue"
           THEN Move(t, [endpoint |-> threads[t].endpoint + 1,
                         sent |-> Append(threads[t].sent, header)])
           ELSE Move(t, [pc |-> "done", sent |-> Append(threads[t].sent, header),
                         outcome |-> IF In("error", CallOutcome(a, "tools/call").v)
                                     THEN "error" ELSE "result"])
    /\ UNCHANGED <<_mcp_session_id, writes>>
    /\ ThreadFrame

ThreadsNext ==
    \E t \in Threads :
        \/ thread_enter(t)
        \/ thread_check(t)
        \/ thread_cached(t)
        \/ thread_initialize_post(t)
        \/ thread_notification(t)
        \/ thread_call_post(t)

----------------------------------------------------------------------------
(* Chat requests served concurrently on one event loop: each runs
   _ensure_session of chat.py:304-319, and a step is the code up to the
   next await.  The store is google.adk's InMemorySessionService, whose
   code is not part of this repository: create_session for a key that has
   a session either stores a new one or raises. *)

MaxRequests == 2
Requests == 1..MaxRequests

RequestKeys == {SessionKey(UserId(meta), SessionId(meta)) : meta \in ChatMetaPool}

\* a request that passed validation and reached chat.py:406
RequestStart(key) == [key |-> key, pc |-> "get", outcome |-> "running"]

RequestsParked == requests = <<>>

RequestsInit == requests \in [Requests -> {RequestStart(k) : k \in RequestKeys}]

RequestFrame ==
    UNCHANGED <<chat_pc, chat_turn, response, mcpVars, argsVars, adapterVars, catalogVars,
                runVars, classifyVars, validateVars, vnVars, invokeVars, threadVars>>

\* chat.py:308-313: `session = await SESSION_SERVICE.get_session(...)` and
\* the test `if not session`; an exception is answered 500 (chat.py:406-409)
request_get_session(r) ==
    /\ requests[r].pc = "get"
    /\ LET key == requests[r].key
           c == CallsOf(key)
       IN /\ session_calls' = (key :> [c EXCEPT !.get = @ + 1]) @@ session_calls
          /\ \E store \in {"ok", "get fails"} :
                requests' = [requests EXCEPT ![r] =
                    IF store = "get fails" THEN [@ EXCEPT !.pc = "done", !.outcome = "500"]
                    ELSE IF EnsureCreates(key) THEN [@ EXCEPT !.pc = "create"]
                    ELSE [@ EXCEPT !.pc = "done", !.outcome = "session"]]
    /\ UNCHANGED SESSION_SERVICE
    /\ RequestFrame

\* chat.py:314-319: `session = await SESSION_SERVICE.create_session(...)`
request_create_session(r) ==
    /\ requests[r].pc = "create"
    /\ LET key == requests[r].key
           c == CallsOf(key)
       IN /\ session_calls' = (key :> [c EXCEPT !.create = @ + 1]) @@ session_calls
          /\ \E store \in {"ok", "already exists"} :
                IF store = "already exists"
                THEN /\ Stored(key) > 0
                     /\ requests' = [requests EXCEPT ![r] =
                                        [@ EXCEPT !.pc = "done", !.outcome = "already exists"]]
                     /\ UNCHANGED SESSION_SERVICE
                ELSE /\ SESSION_SERVICE' = (key :> Stored(key) + 1) @@ SESSION_SERVICE
                     /\ requests' = [requests EXCEPT ![r] =
                                        [@ EXCEPT !.pc = "done", !.outcome = "session"]]
    /\ RequestFrame

RequestsNext ==
    \E r \in Requests :
        \/ request_get_session(r)
        \/ request_create_session(r)

ExtParked == VnParked /\ InvokeParked /\ ThreadsParked /\ RequestsParked


----------------------------------------------------------------------------
AppParked == ChatParked /\ RunParked /\ ClassifyParked /\ ValidateParked /\ ExtParked

----------------------------------------------------------------------------
(* The specifications *)

vars == <<mcpVars, argsVars, adapterVars, catalogVars, appVars, extVars>>

\* the session, the call client and the operations that use them
Init == McpInit /\ ArgsParked /\ AdapterParked /\ CatalogParked /\ AppParked
Next == McpNext
Spec == Init /\ [][Next]_vars

\* the argument normalizer of one adapter
InitArgs == McpInit /\ ArgsInit /\ AdapterParked /\ CatalogParked /\ AppParked
SpecArgs == InitArgs /\ [][ProcessArguments]_vars

\* the result handling of one adapter
InitAdapter == McpInit /\ AdapterInit /\ CatalogParked /\ AppParked
SpecAdapter == InitAdapter /\ [][ToolFunction]_vars

\* the catalog loader
InitCatalog == McpInit /\ ArgsParked /\ AdapterParked /\ CatalogInit /\ AppParked
SpecCatalog == InitCatalog /\ [][LoadTools]_vars

McpParked == McpInit /\ ArgsParked /\ AdapterParked /\ CatalogParked

\* the chat endpoint, one request at a time
InitChat == McpParked /\ ChatInit /\ RunParked /\ ClassifyParked /\ ValidateParked /\ ExtParked
NextChat == chat \/ ensure_session \/ run_turn
SpecChat == InitChat /\ [][NextChat]_vars

\* the agent run of one turn
InitRun == McpParked /\ ChatParked /\ RunInit /\ ClassifyParked /\ ValidateParked /\ ExtParked
SpecRun == InitRun /\ [][RunAgent]_vars

\* the classifier
InitClassify == McpParked /\ ChatParked /\ RunParked /\ ClassifyInit /\ ValidateParked /\ ExtParked
SpecClassify == InitClassify /\ [][Classify]_vars

\* the validator of the request body
InitValidate == McpParked /\ ChatParked /\ RunParked /\ ClassifyParked /\ ValidateInit /\ ExtParked
SpecValidate == InitValidate /\ [][Validate]_vars

\* VnstockMCP._call_mcp_jsonrpc for every answer of the server
InitVnstock ==
    /\ McpParked /\ ChatParked /\ RunParked /\ ClassifyParked /\ ValidateParked
    /\ VnInit /\ InvokeParked /\ ThreadsParked /\ RequestsParked
NextVnstock == vn_call_mcp_jsonrpc \/ vn_post
SpecVnstock == InitVnstock /\ [][NextVnstock]_vars

\* a call of a generated adapter up to the arguments it sends
InitInvoke ==
    /\ McpParked /\ ChatParked /\ RunParked /\ ClassifyParked /\ ValidateParked
    /\ VnParked /\ InvokeInit /\ ThreadsParked /\ RequestsParked
SpecInvoke == InitInvoke /\ [][invoke_adapter_call]_vars

\* threads racing for the session
InitThreads ==
    /\ McpParked /\ ChatParked /\ RunParked /\ ClassifyParked /\ ValidateParked
    /\ VnParked /\ InvokeParked /\ ThreadsInit /\ RequestsParked
SpecThreads == InitThreads /\ [][ThreadsNext]_vars

\* chat requests racing for the session of their key
InitRequests ==
    /\ McpParked /\ ChatParked /\ RunParked /\ ClassifyParked /\ ValidateParked
    /\ VnParked /\ InvokeParked /\ ThreadsParked /\ RequestsInit
SpecRequests == InitRequests /\ [][RequestsNext]_vars

----------------------------------------------------------------------------
(* Properties of the session handshake and the call client, checked under Spec *)

CallOps == {"call", "tool", "load"}
IsInitPost(p, ep) == p.payload = "initialize" /\ p.endpoint = ep
Answered(p, status) == ~p.resp.raised /\ p.resp.status = status
\* the handshake of the current operation is over
HandshakeOver == pc \in {"call", "idle"} /\ InitPosts(posts) # {}
LastPost == posts[Len(posts)]
LastInitPost == posts[CHOOSE i \in InitPosts(posts) : \A j \in InitPosts(posts) : j <= i]
\* the decoded body is a JSON object with an "error" member
CarriesError(r) ==
    LET d == BodyDoc(r) IN d.kind = "return" /\ d.v.t = "dict" /\ "error" \in DOMAIN d.v.m

\* Two top-level calls of _initialize_mcp_session in a row, the first of which
\* performed the handshake and returned a handle.
C1_TwoCalls ==
    /\ pc = "idle" /\ op.name = "initialize"
    /\ prev.name = "initialize" /\ Truthy(prev.handle) /\ prev.inits >= 1

\* C1 as stated: the two calls issue exactly one initialize POST in total, the
\* second none, and the second returns the handle the first cached.
C1_ExactlyOneInitializePost ==
    C1_TwoCalls =>
        /\ prev.inits + Cardinality(InitPosts(posts)) = 1
        /\ posts = <<>>
        /\ ret = Return(prev.handle)

\* C1 amended: the second call performs no POST at all and returns the handle
\* the first call cached, which is still the cached one; the initialize POSTs
\* of the two calls are those of the first call's one handshake, one per
\* candidate path it tried (one or two).
C1_SecondCallIssuesNoRequest ==
    C1_TwoCalls =>
        /\ posts = <<>>
        /\ ret = Return(prev.handle)
        /\ _mcp_session_id = prev.handle
        /\ prev.inits \in 1..Len(endpoints_to_try)

C1_Witness == C1_TwoCalls /\ prev.inits = 1 /\ ret = Return(PStr("sid-a"))

\* A finished handshake whose POST to "/mcp" was answered 404 and whose POST
\* to "/" was answered 200 with a session-id header.
C2_Case ==
    /\ HandshakeOver /\ Len(posts) >= 2
    /\ IsInitPost(posts[1], "/mcp") /\ Answered(posts[1], 404)
    /\ IsInitPost(posts[2], "/") /\ Answered(posts[2], 200) /\ Truthy(posts[2].resp.sid)

C2_Succeeds ==
    /\ _mcp_session_id = posts[2].resp.sid
    /\ session_id = posts[2].resp.sid
    /\ (pc = "idle" /\ op.name = "initialize" => ret = Return(posts[2].resp.sid))
    /\ Cardinality(InitPosts(posts)) = 2

\* C2 as stated: 404 on "/mcp" then 200 with a session id on "/" succeeds:
\* the id is returned and cached after exactly two initialize POSTs.
C2_SecondPathSucceeds == C2_Case => C2_Succeeds

\* the body of r is no JSON text, or an event stream without a usable data
\* line, or a JSON object without an "error" member
C2_AcceptableBody(r) ==
    LET d == BodyDoc(r)
    IN d.kind = "raise" \/ d.v = None \/ (d.v.t = "dict" /\ "error" \notin DOMAIN d.v.m)

\* C2 amended: a handshake whose POST to "/mcp" is answered 404 goes on to
\* "/"; when "/" answers 200 with a session id and a body that, if it
\* decodes, is a JSON object without an "error" member, the handshake
\* returns and caches that id after exactly two initialize POSTs.
C2_SecondPathSucceedsUnlessBodyRejected ==
    /\ (HandshakeOver /\ IsInitPost(posts[1], "/mcp") /\ Answered(posts[1], 404)
            => Len(posts) >= 2 /\ IsInitPost(posts[2], "/"))
    /\ (C2_Case /\ C2_AcceptableBody(posts[2].resp) => C2_Succeeds)

C2_Witness ==
    C2_Case /\ C2_AcceptableBody(posts[2].resp) /\ pc = "idle" /\ op.name = "initialize"
    /\ ret = Return(PStr("sid-b"))

\* the failure cases of an RPC call, read off the POSTs of the operation
C3_Failure ==
    \/ \A i \in 1..Len(posts) : posts[i].payload = "initialize"
    \/ LastPost.resp.raised
    \/ LastPost.resp.status >= 400
    \/ BodyDoc(LastPost.resp).kind = "raise"
    \/ BodyDoc(LastPost.resp).v = None
    \/ CarriesError(LastPost.resp)

\* C3: whatever the server and the network do, _call_mcp_jsonrpc returns a
\* value and never raises, and in every failure case (exception, error
\* status, undecodable body, event stream without data line, error envelope,
\* failed handshake) the value is a mapping with an "error" key.
C3_CallNeverRaises ==
    pc = "idle" /\ op.name \in CallOps =>
        /\ result # Unset
        /\ (op.name = "call" => ret = Return(result))
        /\ (C3_Failure => result.t = "dict" /\ "error" \in DOMAIN result.m)

C3_Witness ==
    /\ pc = "idle" /\ op.name = "call" /\ LastPost.payload = op.method
    /\ LastPost.resp.raised
    /\ result.t = "dict" /\ "error" \in DOMAIN result.m

\* the last POST of the finished operation is its envelope, answered with
\* success status and the error envelope {error: {message: m, code: c}}
C4_Case(m, c) ==
    /\ pc = "idle" /\ op.name \in CallOps /\ posts # <<>>
    /\ LastPost.payload = op.method
    /\ ~LastPost.resp.raised /\ LastPost.resp.status < 400
    /\ BodyDoc(LastPost.resp) = Return(ErrorEnvelope(ErrorObject(m, c)))

\* C4: an error envelope {message: m, code: c} surfaces from
\* _call_mcp_jsonrpc as {error: m, code: c, method}, and the adapter of tool
\* t returns {error: m, tool: t, code: c} without raising.
C4_ErrorEnvelopeSurfaces ==
    \A m \in {"boom", "bad request"}, c \in {7, -32600} :
        C4_Case(m, c) =>
            /\ result = PDict(("error" :> PStr(m)) @@ ("code" :> PInt(c))
                              @@ ("method" :> PStr(op.method)))
            /\ (op.name = "tool" =>
                  ret = Return(PDict(("error" :> PStr(m)) @@ ("tool" :> PStr(op.tool))
                                     @@ ("code" :> PInt(c)))))

C4_Witness ==
    /\ C4_Case("boom", 7) /\ op.name = "tool" /\ op.tool = "company_overview"
    /\ ret.kind = "return" /\ ret.v.m["code"] = PInt(7)

\* C5 as stated: in the handshake and in the RPC call, the client goes on to
\* the next candidate path only after a 404 answer.
C5_AdvancesOnlyOn404 ==
    \A i \in 1..(Len(posts) - 1) :
        (posts[i].payload = posts[i + 1].payload /\ posts[i].endpoint # posts[i + 1].endpoint)
            => Answered(posts[i], 404)

\* the handshake of the finished operation failed for one of the reasons the
\* claim names: network error, 404 on every candidate path, error in the body
C6_HandshakeFailed ==
    /\ pc = "idle" /\ InitPosts(posts) # {}
    /\ \/ LastInitPost.resp.raised
       \/ /\ Cardinality(InitPosts(posts)) = Len(endpoints_to_try)
          /\ \A i \in InitPosts(posts) : Answered(posts[i], 404)
       \/ /\ Answered(LastInitPost, 200) /\ Truthy(LastInitPost.resp.sid)
          /\ CarriesError(LastInitPost.resp)

\* C6: a failed handshake caches no handle, the RPC call that triggered it
\* returns {error: "Failed to initialize MCP session", method} without
\* POSTing its envelope, and an RPC call that starts without a cached handle
\* makes exactly one handshake attempt and sends only the handle it got.
C6_FailedHandshakeNotCached ==
    /\ C6_HandshakeFailed =>
          /\ _mcp_session_id = None
          /\ (op.name = "initialize" => ret = Return(None))
          /\ (op.name \in CallOps =>
                /\ result = InitFailedError(op.method)
                /\ \A i \in 1..Len(posts) : posts[i].payload = "initialize")
    /\ (op.name \in CallOps /\ ~op.had_session /\ pc \in {"call", "idle"}) =>
          /\ Cardinality({i \in InitPosts(posts) : posts[i].endpoint = endpoints_to_try[1]}) = 1
          /\ Cardinality(InitPosts(posts)) <= Len(endpoints_to_try)
          /\ \A i \in 1..Len(posts) :
                posts[i].payload = op.method =>
                    /\ Truthy(posts[i].sid)
                    /\ posts[i].sid = LastInitPost.resp.sid

C6_Witness ==
    /\ C6_HandshakeFailed /\ Answered(LastInitPost, 200) /\ CarriesError(LastInitPost.resp)
    /\ op.name = "call" /\ prev.name = "call"
    /\ result = InitFailedError(op.method)

----------------------------------------------------------------------------
(* Properties of the argument normalizer, checked under SpecArgs *)

Processed == processed_kwargs # Unset
OnlySymbol == OD(<<<<"symbol", VNM>>>>)
OnlyStocks == OD(<<<<"stocks", VNM>>>>)
OnlySymbols(v) == OD(<<<<"symbols", v>>>>)

\* the descriptor of the adapter declares a parameter named "symbols"
C7_DeclaresSymbols == "symbols" \in DOMAIN adapter_properties.m

\* what C7 promises for the two argument sets it names
C7_Normalized ==
    /\ (call_kwargs = OnlySymbol => processed_kwargs = OnlySymbols(PList(<<VNM>>)))
    /\ (call_kwargs = OnlySymbols(VNM_FPT) => processed_kwargs = OnlySymbols(VNM_FPT))

\* C7 as stated: for every descriptor that declares "symbols", whatever the
\* declared type, {symbol: "VNM"} normalizes to {symbols: ["VNM"]} and
\* {symbols: ["VNM","FPT"]} stays as it is.
C7_SymbolsAlwaysSequence == Processed /\ C7_DeclaresSymbols => C7_Normalized

\* the declared type of "symbols" is "array" or a list of types with "array"
C7_DeclaredArray ==
    /\ C7_DeclaresSymbols
    /\ "type" \in DOMAIN adapter_properties.m["symbols"].m
    /\ LET ty == adapter_properties.m["symbols"].m["type"]
       IN \/ ty = PStr("array")
          \/ ty.t = "list" /\ PStr("array") \in {ty.xs[i] : i \in 1..Len(ty.xs)}

\* C7 amended: for every descriptor that declares "symbols" with type array
\* (or with a list of types that contains array), and for the descriptor of
\* get_price_board whatever type it declares for "symbols",
\* {symbol: "VNM"} normalizes to {symbols: ["VNM"]} and
\* {symbols: ["VNM","FPT"]} stays as it is.
C7_ArraySymbolsSequence ==
    Processed /\ (C7_DeclaredArray \/ (C7_DeclaresSymbols /\ adapter_tool = "get_price_board"))
        => C7_Normalized

C7_Witness ==
    /\ Processed /\ C7_DeclaredArray /\ adapter_tool = "company_overview"
    /\ call_kwargs = OnlySymbol /\ processed_kwargs = OnlySymbols(PList(<<VNM>>))

\* C8 as stated: for get_price_board, whatever the schema declares,
\* {symbol: "VNM"} and {stocks: "VNM"} both normalize to {symbols: ["VNM"]}.
C8_PriceBoardSymbolsSequence ==
    Processed /\ adapter_tool = "get_price_board" /\ call_kwargs \in {OnlySymbol, OnlyStocks}
        => processed_kwargs = OnlySymbols(PList(<<VNM>>))

----------------------------------------------------------------------------
(* Properties of the adapter's result handling, checked under SpecAdapter *)

\* the adapter has handled a result of tools/call that is a mapping without
\* an "error" key
C9_Success ==
    /\ tool_output # Running
    /\ call_result.t = "dict" /\ "error" \notin DOMAIN call_result.m

HasKey(d, k) == k \in DOMAIN d.m
C9_IsTextItem(x) ==
    x.t = "dict" /\ HasKey(x, "type") /\ x.m["type"] = PStr("text")
    /\ HasKey(x, "text") /\ x.m["text"].t = "str"

RECURSIVE C9_Joined(_)
C9_Joined(ts) ==
    IF Len(ts) = 0 THEN ""
    ELSE IF Len(ts) = 1 THEN ts[1]
    ELSE C9_Joined(SubSeq(ts, 1, Len(ts) - 1)) \o "\n" \o ts[Len(ts)]

\* C9 as stated: the joined texts when content is a list of text items,
\* otherwise the bare text field when there is one, otherwise the raw result.
C9_JoinElseTextElseRaw ==
    C9_Success =>
        LET r == call_result
            textList == /\ HasKey(r, "content") /\ r.m["content"].t = "list"
                        /\ r.m["content"].xs # <<>>
                        /\ \A i \in 1..Len(r.m["content"].xs) : C9_IsTextItem(r.m["content"].xs[i])
        IN tool_output =
             IF textList
             THEN Return(PStr(C9_Joined([i \in 1..Len(r.m["content"].xs) |->
                                             r.m["content"].xs[i].m["text"].s])))
             ELSE IF HasKey(r, "text") THEN Return(r.m["text"])
             ELSE Return(r)

\* the items of a content list that contribute a text: mappings with a text
\* field, and mappings of type text without one, which contribute ""
C9_Contributes(x) ==
    x.t = "dict" /\ (HasKey(x, "text") \/ (HasKey(x, "type") /\ x.m["type"] = PStr("text")))
C9_TextOf(x) == IF HasKey(x, "text") THEN x.m["text"] ELSE PStr("")
C9_Texts(content) ==
    LET picked == SelectSeq(content.xs, C9_Contributes)
    IN [i \in 1..Len(picked) |-> C9_TextOf(picked[i])]

\* C9 amended: when the result has a content entry, the adapter returns the
\* newline-joined texts, in order, of the items of the content list that
\* contribute one (string texts), and the content entry itself when content
\* is no list or no item contributes a text; only when the result has no
\* content entry does it return the bare text field, and the raw result when
\* there is none.  Items "A","B" give "A\nB".
C9_ContentElseTextElseRaw ==
    /\ C9_Success =>
          LET r == call_result
          IN IF HasKey(r, "content")
             THEN LET c == r.m["content"]
                  IN IF c.t = "list" /\ C9_Texts(c) # <<>>
                     THEN (\A i \in 1..Len(C9_Texts(c)) : C9_Texts(c)[i].t = "str")
                            => tool_output =
                                 Return(PStr(C9_Joined([i \in 1..Len(C9_Texts(c)) |->
                                                            C9_Texts(c)[i].s])))
                     ELSE tool_output = Return(c)
             ELSE IF HasKey(r, "text") THEN tool_output = Return(r.m["text"])
             ELSE tool_output = Return(r)
    /\ (tool_output # Running /\ call_result = ContentAB => tool_output = Return(PStr("A\nB")))

C9_Witness ==
    /\ C9_Success /\ call_result = PDict("content" :> PList(<<TextItem("A"), TextItem("B")>>))
    /\ tool_output = Return(PStr("A\nB"))

----------------------------------------------------------------------------
(* Properties of the catalog loader, checked under SpecCatalog *)

Loaded == loaded_tools # Unset

\* tools/list returned an error value or an empty list of tools
C10_ErrorOrEmpty ==
    /\ list_result.t = "dict"
    /\ \/ HasKey(list_result, "error")
       \/ HasKey(list_result, "tools") /\ list_result.m["tools"] = PList(<<>>)

\* tools/list returned descriptors, each a mapping with a name that can be
\* the name of a function
C10_Descriptors ==
    /\ list_result.t = "dict" /\ ~HasKey(list_result, "error")
    /\ HasKey(list_result, "tools") /\ list_result.m["tools"].t = "list"
    /\ list_result.m["tools"].xs # <<>>
    /\ \A i \in 1..Len(list_result.m["tools"].xs) :
          LET d == list_result.m["tools"].xs[i]
          IN d.t = "dict" /\ HasKey(d, "name") /\ d.m["name"].t = "str"
             /\ IsIdentifier(d.m["name"].s)

\* C10 as stated: an empty sequence on error or empty list; otherwise one
\* adapter per descriptor the server returned, in the server's order,
\* whatever the names, types, defaults and order of the declared properties.
C10_OneAdapterPerDescriptor ==
    Loaded =>
        /\ (C10_ErrorOrEmpty => loaded_tools = PList(<<>>))
        /\ (C10_Descriptors =>
              /\ Len(loaded_tools.xs) = Len(list_result.m["tools"].xs)
              /\ \A i \in 1..Len(loaded_tools.xs) :
                    loaded_tools.xs[i].tool_name = list_result.m["tools"].xs[i].m["name"].s)

----------------------------------------------------------------------------
(* Properties of the agent run of a turn, checked under SpecRun *)

\* the run handed to _run_agent raised an exception (an instance of
\* Exception) and _run_agent is over
C11_RunRaised ==
    /\ run_result # Running
    /\ agent_run.raises # None /\ agent_run.raises.base = "Exception"

\* C11: when the agent run raises an exception, _run_agent does not
\* propagate it: it returns the fixed apology as reply and a trace of one
\* entry that carries the error text and the error type.
C11_RunFailureBecomesApology ==
    C11_RunRaised =>
        run_result = Return([reply |-> Apology,
                             events |-> <<[error |-> agent_run.raises.text,
                                           error_type |-> agent_run.raises.type]>>])

C11_Witness ==
    /\ C11_RunRaised /\ agent_run.events # <<>>
    /\ run_result.kind = "return" /\ run_result.v.reply = Apology
    /\ run_result.v.events[1].error_type = "ValueError"

\* the text of the first part of parts that has a non-empty text, if any
C13_PartText(parts) ==
    LET withText == SelectSeq(parts, LAMBDA p : hasattr(p, "text") /\ IsTrue(p.m["text"]))
    IN IF withText = <<>> THEN None ELSE withText[1].m["text"]

\* the four places an event's text is looked for, in order
C13_Candidates(e) ==
    <<IF hasattr(e, "content") /\ e.m["content"] # None /\ hasattr(e.m["content"], "parts")
         /\ e.m["content"].m["parts"].t = "list"
      THEN C13_PartText(e.m["content"].m["parts"].xs) ELSE None,
      IF hasattr(e, "text") THEN e.m["text"] ELSE None,
      IF ~hasattr(e, "message") THEN None
      ELSE IF e.m["message"].t = "str" THEN e.m["message"]
      ELSE IF hasattr(e.m["message"], "text") THEN e.m["message"].m["text"]
      ELSE None,
      IF hasattr(e, "parts") /\ e.m["parts"].t = "list"
      THEN C13_PartText(e.m["parts"].xs) ELSE None>>

\* the first non-empty candidate, None when there is none
C13_EventText(e) ==
    LET found == SelectSeq(C13_Candidates(e), IsTrue)
    IN IF found = <<>> THEN None ELSE found[1]

C13_Texts(events) == SelectSeq([i \in 1..Len(events) |-> C13_EventText(events[i])], IsTrue)

\* C13: for every sequence of events of a run that does not raise, the reply
\* is the text of the last event that carried a non-empty text, and the
\* diagnostic placeholder when no event carried one; the text of an event is
\* the first non-empty of: a text part of its content, its text field, its
\* message field, a text part of its own parts.
C13_ReplyIsLastText ==
    run_result # Running /\ agent_run.raises = None =>
        LET texts == C13_Texts(agent_run.events)
        IN /\ run_result.kind = "return"
           /\ run_result.v.reply = IF texts = <<>> THEN Placeholder ELSE texts[Len(texts)]

C13_Witness ==
    /\ run_result # Running /\ agent_run.raises = None
    /\ agent_run.events = <<ReplyEvent("A"), Obj("message" :> PStr("D")), ContentEvent(<<>>)>>
       \/ agent_run.events = <<ReplyEvent("A"), Obj("message" :> PStr("D"))>>
    /\ run_result.v.reply = PStr("D")

----------------------------------------------------------------------------
(* Properties of the chat endpoint, checked under SpecChat *)

\* the turn in progress has run the agent and is answered; the run did not
\* end by an exception outside Exception
C12_TurnOver ==
    /\ chat_pc = "idle" /\ chat_turn.run # Unset
    /\ (chat_turn.run.raises # None => chat_turn.run.raises.base = "Exception")

\* C12 as stated: a request that passed validation and got its session is
\* answered with success status and a non-empty reply, whatever the agent
\* did and whatever the query and the reply contain.
C12_AlwaysSuccess ==
    C12_TurnOver =>
        /\ response.kind = "response" /\ response.status = 200
        /\ response.body.reply.t = "str" /\ response.body.reply.s # ""

\* C14: every key the turns referenced has exactly one session in the
\* store: create_session is called only when there is none, a later turn
\* with the same key finds the session, and nothing removes a session.
C14_OneSessionPerKey ==
    /\ \A key \in DOMAIN SESSION_SERVICE : SESSION_SERVICE[key] = 1
    /\ \A key \in DOMAIN session_calls :
          /\ session_calls[key].ensured >= 1 => Stored(key) = 1
          /\ session_calls[key].create <= session_calls[key].get
          /\ Stored(key) = 1 =>
                session_calls[key].create + session_calls[key].ensured
                    <= session_calls[key].get + 1

C14_Witness ==
    \E key \in DOMAIN session_calls :
        /\ session_calls[key].ensured = 2 /\ session_calls[key].create = 1
        /\ Stored(key) = 1 /\ chat_pc = "idle" /\ response.kind = "response"

----------------------------------------------------------------------------
(* Properties of the classifier, checked under SpecClassify *)

\* the intent rules in priority order
C15_Rules ==
    <<[intent |-> "market_overview", keywords |-> {"tổng quan", "market overview", "vnindex"}],
      [intent |-> "buy_stock", keywords |-> {"mua", "buy", "ðặt lệnh"}],
      [intent |-> "stock_detail", keywords |-> {"chi tiết", "detail", "thông tin chi tiết"}],
      [intent |-> "price_query", keywords |-> {"giá", "price"}]>>

C15_FirstMatch(query) ==
    LET matched == SelectSeq(C15_Rules,
                             LAMBDA r : \E k \in r.keywords : IsSubstr(k, Lower(query)))
    IN IF matched = <<>> THEN None ELSE PStr(matched[1].intent)

C16_TokenAt(text, i, n) ==
    /\ i >= 1 /\ i + n - 1 <= Len(text)
    /\ \A j \in i..(i + n - 1) : HasChar(Char(text, j), AsciiUpper)
    /\ i = 1 \/ ~IsWordChar(Char(text, i - 1))
    /\ i + n - 1 = Len(text) \/ ~IsWordChar(Char(text, i + n))

C16_Tokens(text) ==
    {<<i, n>> \in (1..Len(text)) \X {3, 4} : C16_TokenAt(text, i, n)}

\* the first token of 3 or 4 uppercase letters of text, "" when it has none
C16_FirstToken(text) ==
    IF C16_Tokens(text) = {} THEN ""
    ELSE LET first == CHOOSE t \in C16_Tokens(text) :
                          \A u \in C16_Tokens(text) : t[1] <= u[1]
         IN SubSeq(text, first[1], first[1] + first[2] - 1)

C16_BuyEffects(effects) == SelectSeq(effects, LAMBDA e : e.type = "OPEN_BUY_STOCK")

C16_StepIds(effect) == [i \in 1..Len(effect.payload.steps) |-> effect.payload.steps[i].id]

C16_Query == "Mình muốn mua MWG"

\* C16 as stated: for every reply, the effects of the query "Mình muốn mua
\* MWG" hold exactly one OpenBuyStock effect, with symbol MWG, price 0.0 and
\* the steps choose_volume, choose_price, confirm.
C16_SymbolIsAlwaysMWG ==
    classified # Unset /\ classify_args.query = C16_Query =>
        /\ classified.ui_effects.kind = "return"
        /\ LET buys == C16_BuyEffects(classified.ui_effects.v)
           IN /\ Len(buys) = 1
              /\ buys[1].payload.symbol = "MWG"
              /\ buys[1].payload.currentPrice = "0.0"
              /\ C16_StepIds(buys[1]) = <<"choose_volume", "choose_price", "confirm">>

\* C16 amended: for every reply, the effects of the query "Mình muốn mua
\* MWG" hold exactly one OpenBuyStock effect with price 0.0 and the three
\* steps; its symbol is the first token of 3 or 4 uppercase letters of the
\* reply, and MWG only when the reply has no such token.
C16_SymbolFromReplyFirst ==
    classified # Unset /\ classify_args.query = C16_Query =>
        /\ classified.ui_effects.kind = "return"
        /\ LET buys == C16_BuyEffects(classified.ui_effects.v)
               token == C16_FirstToken(classify_args.reply)
           IN /\ Len(buys) = 1
              /\ buys[1].payload.symbol = IF token = "" THEN "MWG" ELSE token
              /\ buys[1].payload.currentPrice = "0.0"
              /\ C16_StepIds(buys[1]) = <<"choose_volume", "choose_price", "confirm">>

C16_Witness ==
    /\ classified # Unset /\ classify_args.query = C16_Query
    /\ classify_args.reply = PriceReply
    /\ classified.ui_effects.kind = "return"
    /\ C16_BuyEffects(classified.ui_effects.v)[1].payload.symbol = "VNM"

\* C17 as stated: when the query holds a detail keyword and a symbol can be
\* taken from it, parse_ui_effects returns, and its result holds an
\* OpenStockDetail effect whose payload carries just that symbol.
C17_DetailEffectReturned ==
    /\ classified # Unset
    /\ AnyIn(detail_keywords, Lower(classify_args.query))
    /\ C16_FirstToken(classify_args.query) # ""
    => /\ classified.ui_effects.kind = "return"
       /\ \E i \in 1..Len(classified.ui_effects.v) :
             /\ classified.ui_effects.v[i].type = "OPEN_STOCK_DETAIL"
             /\ classified.ui_effects.v[i].payload
                    = [symbol |-> C16_FirstToken(classify_args.query)]

\* the turn of chat.py:288-290: the intent handed to generate_suggestions
\* is the one extract_intent returned
C18_AsInChat == classified # Unset /\ classify_args.intent = classified.intent

\* a reply with "giá hiện tại", a query with "giá", one symbol and no "mua"
C18_PriceTalk ==
    /\ C18_AsInChat
    /\ IsSubstr("giá hiện tại", Lower(classify_args.reply))
    /\ IsSubstr("giá", Lower(classify_args.query))
    /\ ~IsSubstr("mua", Lower(classify_args.query))
    /\ Len(FindSymbols(classify_args.query)) = 1

C18_Texts == [i \in 1..Len(classified.suggestions) |-> classified.suggestions[i].text]

C18_Has(text) == \E i \in 1..Len(C18_Texts) : C18_Texts[i] = text

\* C18 as stated: for such a reply and query the intent is price_query, the
\* suggestions hold the price history and the buy suggestion of the symbol,
\* and there are at most 3 of them.
C18_HistoryAndBuySuggested ==
    C18_PriceTalk =>
        /\ classified.intent = PStr("price_query")
        /\ C18_Has("Xem lịch sử giá 1 tháng qua")
        /\ C18_Has("Mua " \o FindSymbols(classify_args.query)[1])
        /\ Len(classified.suggestions) <= 3

\* C18 amended: for such a reply and query the price history is the first
\* suggestion and there are at most 3; the intent is price_query unless the
\* query also holds a keyword of an earlier intent rule; with the intent
\* price_query the suggestions are exactly history, comparison and
\* financial report, the buy suggestion being cut by the cap of 3; with
\* another intent the buy suggestion is the second one.
C18_BuyCutByCap ==
    C18_PriceTalk =>
        LET symbol == FindSymbols(classify_args.query)[1]
        IN /\ C18_Texts[1] = "Xem lịch sử giá 1 tháng qua"
           /\ Len(classified.suggestions) <= 3
           /\ classified.intent \in {PStr("price_query"), PStr("market_overview"),
                                     PStr("buy_stock"), PStr("stock_detail")}
           /\ classified.intent = PStr("price_query") <=>
                 ~\E i \in 1..3 : \E k \in C15_Rules[i].keywords :
                      IsSubstr(k, Lower(classify_args.query))
           /\ IF classified.intent = PStr("price_query")
              THEN /\ C18_Texts = <<"Xem lịch sử giá 1 tháng qua",
                                    "So sánh " \o symbol \o " với mã khác",
                                    "Xem báo cáo tài chính">>
                   /\ ~C18_Has("Mua " \o symbol)
              ELSE /\ Len(C18_Texts) >= 2
                   /\ C18_Texts[2] = "Mua " \o symbol
                   /\ classified.suggestions[2].action = "buy:" \o symbol

C18_Witness ==
    /\ C18_PriceTalk
    /\ classify_args.reply = "Giá hiện tại của VNM là 50.0"
    /\ classify_args.query = "Giá VNM hôm nay?"
    /\ classified.intent = PStr("price_query")
    /\ Len(classified.suggestions) = 3 /\ ~C18_Has("Mua VNM")

\* the suggestions of the rules that matched, in rule order
C19_Matched ==
    LET reply_lower == Lower(classify_args.reply)
        query_lower == Lower(classify_args.query)
        symbols == FindSymbols(classify_args.query)
        intent == classify_args.intent
    IN HistorySuggestion(reply_lower) \o CompareSuggestion(symbols, intent)
       \o ReportSuggestion(symbols, intent)
       \o BuySuggestion(symbols, reply_lower, query_lower)
       \o MarketSuggestion(symbols, intent) \o NewsSuggestion(symbols, intent)

\* C19: for every reply, query and intent, generate_suggestions returns 1
\* to 3 suggestions, the first (at most three) of the matched rules in rule
\* order; the help suggestion is returned exactly when no rule matched, and
\* it is then the only one.
C19_OneToThreeSuggestions ==
    classified # Unset =>
        LET n == Len(classified.suggestions)
            help == \E i \in 1..n : classified.suggestions[i] = HelpSuggestion
        IN /\ n \in 1..3
           /\ help <=> C19_Matched = <<>>
           /\ help => classified.suggestions = <<HelpSuggestion>>
           /\ ~help =>
                 /\ n = (IF Len(C19_Matched) < 3 THEN Len(C19_Matched) ELSE 3)
                 /\ \A i \in 1..n : classified.suggestions[i] = C19_Matched[i]

C19_Witness ==
    /\ classified # Unset
    /\ Len(C19_Matched) = 5 /\ Len(classified.suggestions) = 3
    /\ classified.suggestions[3].text = "Xem báo cáo tài chính"

----------------------------------------------------------------------------
(* Properties of the request validator, checked under SpecValidate *)

\* the Latin letters and the Vietnamese letters with diacritics, of both
\* cases
C20_Letters == LowerChars \o UpperChars \o LetterPattern

C20_Normalized(content) == CollapseWhitespace(Strip(content))

C20_Acceptable(content) ==
    LET text == C20_Normalized(content)
        letters == Cardinality({i \in 1..Len(text) : HasChar(Char(text, i), C20_Letters)})
        nonSpace == Cardinality({i \in 1..Len(text) : Char(text, i) # " "})
    IN /\ text # ""
       /\ letters >= 1
       /\ 10 * letters >= 3 * nonSpace

\* C20 as stated: a request passes validation exactly when it has a user
\* message and the content of the most recent one, trimmed and with its
\* whitespace collapsed, is non-empty, holds a Latin or Vietnamese letter
\* and has letters / non-space characters >= 0.3.
C20_PassesExactlyWhenReadable ==
    validated # Running =>
        (validated.kind = "return" <=>
            /\ LastUserIndex(request_messages) # 0
            /\ C20_Acceptable(request_messages[LastUserIndex(request_messages)].content))

----------------------------------------------------------------------------
(* Properties of the RPC client and the handshake, checked under Spec *)

\* the operation is over and the last POST was its envelope, answered with
\* a success status
C22_Case ==
    /\ pc = "idle" /\ op.name = "call" /\ posts # <<>>
    /\ LastPost.payload = op.method
    /\ ~LastPost.resp.raised /\ LastPost.resp.status \in 200..299

\* the JSON text the decoding rests on: the first "data: " line of an event
\* stream, the whole body otherwise; BadJson when there is none
C22_Text(r) ==
    IF IsSubstr("text/event-stream", r.ctype)
    THEN (IF r.body.sse /\ \E i \in 1..Len(r.body.lines) : r.body.lines[i].data
          THEN LET first == CHOOSE i \in 1..Len(r.body.lines) :
                                /\ r.body.lines[i].data
                                /\ \A j \in 1..(i - 1) : ~r.body.lines[j].data
               IN r.body.lines[first].json
          ELSE BadJson)
    ELSE (IF r.body.sse THEN BadJson ELSE r.body.json)

C22_IsError(v) == v.t = "dict" /\ "error" \in DOMAIN v.m /\ "method" \in DOMAIN v.m

\* C22: a 2xx answer is decoded from its first "data: " line when the
\* content type holds text/event-stream and as one JSON document otherwise;
\* a stream without such a line, or text that is no JSON, makes the call
\* return an error mapping and never a result.
C22_DecodedByContentType ==
    C22_Case =>
        LET text == C22_Text(LastPost.resp)
        IN IF text.valid
           THEN ret = CallOutcome(CallEnvelope(text.doc, op.method), op.method)
           ELSE ret.kind = "return" /\ C22_IsError(ret.v)

C22_Witness ==
    /\ C22_Case
    /\ LastPost.resp.body = SseBody(<<DataLine(BadJson),
                                      DataLine(JsonText(ResultEnvelope(ContentAB)))>>)
    /\ IsEventStream(LastPost.resp.ctype)
    /\ ret = Return(ErrorDict(PStr("Failed to parse response"), op.method))

\* C24 as stated: an invocation of a tool adapter never raises, whatever
\* _call_mcp_jsonrpc returned to it.
C24_AdapterNeverRaises ==
    pc = "idle" /\ op.name = "tool" => ret.kind = "return"

\* the POSTs of the envelope of the running or finished operation
C25_Envelopes == {i \in 1..Len(posts) : posts[i].payload = op.method}

\* C25: an RPC call POSTs its envelope at most once per candidate path and
\* at most twice, the second time only after the first path answered 404;
\* after any other answer or an exception the call is over: no further
\* POST, no new handshake.
C25_NoRetryBeyondFallback ==
    op.name \in CallOps =>
        /\ Cardinality(C25_Envelopes) <= 2
        /\ \A i, j \in C25_Envelopes :
              i < j => /\ j = i + 1
                       /\ posts[i].endpoint = "/mcp" /\ posts[j].endpoint = "/"
                       /\ Answered(posts[i], 404)
        /\ \A i \in C25_Envelopes :
              /\ \A j \in (i + 1)..Len(posts) : j \in C25_Envelopes
              /\ ~(posts[i].endpoint = "/mcp" /\ Answered(posts[i], 404)) =>
                    i = Len(posts) /\ pc = "idle"

C25_Witness ==
    /\ op.name = "call" /\ pc = "idle" /\ Cardinality(C25_Envelopes) = 2
    /\ Answered(LastPost, 200) /\ InitPosts(posts) = {}

\* the POSTs of the notification of the running or finished operation
C27_Notifications ==
    {i \in 1..Len(posts) : posts[i].payload = "notifications/initialized"}

\* C27: a successful handshake sends exactly one notifications/initialized
\* POST, after the session id was captured and cached, to the path that
\* answered the initialize request and with the session id in its header;
\* whatever becomes of that POST, the handshake returns the handle and the
\* handle stays cached.
C27_OneNotification ==
    /\ Cardinality(C27_Notifications) <= 1
    /\ pc = "initialized" =>
          /\ C27_Notifications = {}
          /\ Truthy(session_id) /\ _mcp_session_id = session_id
          /\ LastPost.payload = "initialize" /\ LastPost.resp.sid = session_id
    /\ \A i \in C27_Notifications :
          /\ i > 1 /\ posts[i - 1].payload = "initialize" /\ Answered(posts[i - 1], 200)
          /\ posts[i].endpoint = posts[i - 1].endpoint
          /\ Truthy(posts[i].sid) /\ posts[i].sid = posts[i - 1].resp.sid
          /\ _mcp_session_id = posts[i].sid
          /\ InitPosts(posts) = 1..(i - 1)
          /\ op.name = "initialize" => pc = "idle" /\ ret = Return(posts[i].sid)
          /\ op.name \in CallOps => pc \in {"call", "idle"}
    /\ (pc = "call" \/ (pc = "idle" /\ op.name = "initialize" /\ ~op.had_session
                        /\ ret.kind = "return" /\ Truthy(ret.v)))
       /\ InitPosts(posts) # {}
       => Cardinality(C27_Notifications) = 1

C27_Witness ==
    /\ op.name = "initialize" /\ pc = "idle"
    /\ \E i \in C27_Notifications : posts[i].resp.raised /\ posts[i].endpoint = "/"
    /\ ret = Return(PStr("sid-b")) /\ _mcp_session_id = PStr("sid-b")

\* C28: once a handle is cached, no step of a later operation clears or
\* replaces it, and no handshake is started: an RPC call leaves it as it
\* is, whether the call succeeds or fails.
C28_HandleIsStable ==
    [][Truthy(_mcp_session_id) =>
          /\ _mcp_session_id' = _mcp_session_id
          /\ pc' # "initialize"
          /\ Cardinality(InitPosts(posts')) <= Cardinality(InitPosts(posts))]_vars

C28_Witness ==
    /\ op.name = "call" /\ op.had_session /\ pc = "idle"
    /\ InitPosts(posts) = {}
    /\ Answered(LastPost, 500)
    /\ ret.kind = "return" /\ C22_IsError(ret.v)
    /\ Truthy(_mcp_session_id)

----------------------------------------------------------------------------
(* Properties of the argument normalizer, checked under SpecArgs *)

\* the arguments after aliasing
C29_Aliased ==
    NormalizeKwargs(call_kwargs.keys, call_kwargs,
                    ToolParamMapping(adapter_tool, adapter_properties), OD(<<>>))

C29_DeclaredArray(type) ==
    \/ type = PStr("array")
    \/ type.t = "list" /\ \E i \in 1..Len(type.xs) : type.xs[i] = PStr("array")

\* the value of an argument of declared type `type`, coerced as stated
C29_Coerced(type, value) ==
    IF C29_DeclaredArray(type)
    THEN (IF value.t = "list" THEN value ELSE PList(<<value>>))
    ELSE IF type = PStr("string")
    THEN (IF value.t = "list"
          THEN (IF value.xs = <<>> THEN PStr("") ELSE PyStr(value.xs[1]))
          ELSE PyStr(value))
    ELSE value

C29_ByDeclaredType(name) ==
    IF name \notin DOMAIN adapter_properties.m THEN C29_Aliased.m[name]
    ELSE C29_Coerced(Get(adapter_properties.m[name], "type", None), C29_Aliased.m[name])

\* the parameter the adapter of get_price_board treats on its own
C29_PriceBoardSymbols(name) ==
    /\ adapter_tool = "get_price_board" /\ name = "symbols"
    /\ name \in DOMAIN adapter_properties.m

\* C29 as stated: after aliasing every argument is coerced by the declared
\* type of its parameter (array, string, other), and an argument absent
\* from the schema passes through with name and value unchanged.
C29_CoercedByDeclaredType ==
    Processed =>
        /\ processed_kwargs.keys = C29_Aliased.keys
        /\ \A name \in DOMAIN C29_Aliased.m :
              processed_kwargs.m[name] = C29_ByDeclaredType(name)

\* C29 amended: as stated, except for the declared parameter "symbols" of
\* get_price_board, which becomes a sequence whatever its declared type: a
\* string is wrapped, a sequence passes, any other value is stringified and
\* wrapped.
C29_CoercedByTypeButPriceBoard ==
    Processed =>
        /\ processed_kwargs.keys = C29_Aliased.keys
        /\ \A name \in DOMAIN C29_Aliased.m :
              LET value == C29_Aliased.m[name]
              IN processed_kwargs.m[name] =
                    IF C29_PriceBoardSymbols(name)
                    THEN (IF value.t = "list" THEN value
                          ELSE IF value.t = "str" THEN PList(<<value>>)
                          ELSE PList(<<PyStr(value)>>))
                    ELSE C29_ByDeclaredType(name)

C29_Witness ==
    /\ Processed /\ adapter_tool = "company_overview"
    /\ adapter_properties = OD(<<<<"symbol", Schema("string")>>>>)
    /\ call_kwargs = OD(<<<<"symbols", VNM_FPT>>, <<"limit", PInt(5)>>>>)
    /\ processed_kwargs = OD(<<<<"symbol", VNM>>, <<"limit", PInt(5)>>>>)

C30_Renamed == {"symbols", "symbol_list", "stocks", "stock"}

C30_Declares(name) == name \in DOMAIN adapter_properties.m

\* C30: for a tool other than get_price_board that declares "symbol" and
\* not "symbols", each of symbols, symbol_list, stocks and stock is renamed
\* to "symbol"; a descriptor that declares neither has an empty alias table
\* and no argument is renamed.
C30_AliasesOntoSymbol ==
    Processed /\ adapter_tool # "get_price_board" /\ ~C30_Declares("symbols") =>
        LET mapping == ToolParamMapping(adapter_tool, adapter_properties)
            Name(k) == IF C30_Declares("symbol") /\ k \in C30_Renamed THEN "symbol" ELSE k
        IN /\ C30_Declares("symbol") =>
                 /\ DOMAIN mapping = C30_Renamed
                 /\ \A k \in C30_Renamed : mapping[k] = "symbol"
           /\ ~C30_Declares("symbol") =>
                 /\ DOMAIN mapping = {}
                 /\ processed_kwargs.keys = call_kwargs.keys
           /\ DOMAIN processed_kwargs.m = {Name(k) : k \in DOMAIN call_kwargs.m}
           /\ \A k \in DOMAIN call_kwargs.m :
                 \E i \in 1..Len(processed_kwargs.keys) : processed_kwargs.keys[i] = Name(k)

C30_Witness ==
    /\ Processed /\ adapter_tool = "company_overview"
    /\ adapter_properties = OD(<<<<"symbol", Schema("string")>>>>)
    /\ call_kwargs = OD(<<<<"stock", VNM>>>>)
    /\ processed_kwargs = OD(<<<<"symbol", VNM>>>>)

----------------------------------------------------------------------------
(* Properties of the threads sharing the session, checked under SpecThreads *)

C21_Written == {writes[i].sid : i \in 1..Len(writes)}
C21_Sent(t) == {threads[t].sent[i] : i \in 1..Len(threads[t].sent)}
C21_AllDone == \A t \in Threads : threads[t].pc = "done"

\* C21: with threads racing for the session while none is cached, in every
\* interleaving the cached handle is the one written last, each handshake
\* that cached a handle returned that handle, and every envelope POSTed
\* carries a handle some successful handshake cached and returned, never
\* an absent or empty one.
C21_LastWriterWins ==
    /\ _mcp_session_id = IF writes = <<>> THEN None ELSE writes[Len(writes)].sid
    /\ \A i \in 1..Len(writes) :
          /\ Truthy(writes[i].sid)
          /\ threads[writes[i].thread].pc \in {"call", "done"} =>
                threads[writes[i].thread].handle = writes[i].sid
    /\ \A t \in Threads : \A h \in C21_Sent(t) : Truthy(h) /\ h \in C21_Written
    /\ C21_AllDone =>
          \A t \in Threads :
              C21_Sent(t) \subseteq {threads[u].handle : u \in {writes[i].thread : i \in 1..Len(writes)}}

C21_Witness ==
    /\ C21_AllDone
    /\ Len(writes) = 2 /\ writes[1].thread = 1 /\ writes[2].thread = 2
    /\ writes[1].sid # writes[2].sid
    /\ threads[1].name = "call" /\ threads[1].handle = writes[1].sid
    /\ threads[1].sent = <<writes[2].sid>>
    /\ _mcp_session_id = writes[2].sid

----------------------------------------------------------------------------
(* Properties of a call of a generated adapter, checked under SpecInvoke *)

\* a parameter that is not required, has no declared default and got no
\* argument from the caller
C23_Omitted(p) ==
    /\ ~p.mandatory /\ p.default = None
    /\ p.name \notin DOMAIN invoke_kwargs.m

\* C23 as stated: the arguments sent hold no fabricated value for an
\* optional parameter without declared default that the caller left out:
\* it is absent or null.
C23_NoFabricatedValue ==
    invoke_sent.kind = "return" =>
        \A i \in 1..Len(invoke_adapter.signature) :
            LET p == invoke_adapter.signature[i]
            IN C23_Omitted(p) /\ p.name \in DOMAIN invoke_sent.v.m =>
                  invoke_sent.v.m[p.name] = None

----------------------------------------------------------------------------
(* Properties of VnstockMCP._call_mcp_jsonrpc, checked under SpecVnstock *)

\* C26 as stated: the call never raises, and the request is sent on the
\* second path only when the first path answered 404; after any other
\* answer of the first path it is reported and not sent again.
C26_ResentOnlyAfter404 ==
    /\ vn_ret.kind # "raise"
    /\ Len(vn_posts) <= 2
    /\ \A i \in 2..Len(vn_posts) : Answered(vn_posts[i - 1], 404)
    /\ vn_pc = "done" /\ vn_posts # <<>> /\ ~Answered(vn_posts[1], 404) =>
          /\ Len(vn_posts) = 1
          /\ vn_ret.kind = "return"

----------------------------------------------------------------------------
(* Properties of the generated signature, checked under SpecCatalog *)

\* the descriptor an adapter was generated from
C31_Descriptor(adapter) ==
    CHOOSE d \in {list_result.m["tools"].xs[i] : i \in 1..Len(list_result.m["tools"].xs)} :
        d.t = "dict" /\ Get(d, "name", None) = PStr(adapter.tool_name)

C31_Required(d) ==
    LET required == Get(Get(d, "inputSchema", OD(<<>>)), "required", PList(<<>>))
    IN {required.xs[i] : i \in 1..Len(required.xs)}

\* C31: a parameter of a generated adapter is mandatory exactly when the
\* descriptor lists it as required and declares no default for it; every
\* other parameter is optional with its declared default, or null when
\* none is declared; the parameters are the declared property names.
C31_SignatureMirrorsDescriptor ==
    Loaded =>
        \A n \in 1..Len(loaded_tools.xs) :
            LET adapter == loaded_tools.xs[n]
                d == C31_Descriptor(adapter)
                declared == Get(Get(d, "inputSchema", OD(<<>>)), "properties", OD(<<>>))
            IN /\ [i \in 1..Len(adapter.signature) |-> adapter.signature[i].name] = declared.keys
               /\ \A i \in 1..Len(adapter.signature) :
                     LET p == adapter.signature[i]
                         has_default == Get(declared.m[p.name], "default", None) # None
                     IN /\ p.mandatory <=> (PStr(p.name) \in C31_Required(d) /\ ~has_default)
                        /\ ~p.mandatory =>
                              p.default = IF has_default THEN declared.m[p.name].m["default"]
                                          ELSE None

C31_Witness ==
    /\ Loaded /\ list_result = ToolsResult(<<QuoteHistory, FundListing>>)
    /\ Len(loaded_tools.xs) = 2
    /\ loaded_tools.xs[1].signature =
          <<[name |-> "symbol", mandatory |-> TRUE, default |-> None],
            [name |-> "interval", mandatory |-> FALSE, default |-> PStr("1D")],
            [name |-> "limit", mandatory |-> FALSE, default |-> None]>>
    /\ loaded_tools.xs[2].signature =
          <<[name |-> "limit", mandatory |-> FALSE, default |-> None],
            [name |-> "fund_type", mandatory |-> FALSE, default |-> PStr("STOCK")]>>

----------------------------------------------------------------------------
(* More properties of the classifier, checked under SpecClassify *)

C32_Rank(type) ==
    CASE type = "SHOW_MARKET_OVERVIEW" -> 1
      [] type = "OPEN_BUY_STOCK" -> 2
      [] type = "OPEN_STOCK_DETAIL" -> 3

C32_MarketMentioned ==
    \E k \in {"tổng quan", "market overview", "vnindex"} :
        \/ IsSubstr(k, Lower(classify_args.query))
        \/ IsSubstr(k, Lower(classify_args.reply))

\* C32 as stated: for every reply and query parse_ui_effects returns a list
\* with at most one effect of each type, in the order ShowMarketOverview,
\* OpenBuyStock, OpenStockDetail, and ShowMarketOverview is in it whenever
\* a market keyword occurs in the query or the reply, whatever the other
\* triggers do.
C32_MarketWhateverTheOthers ==
    classified # Unset =>
        /\ classified.ui_effects.kind = "return"
        /\ LET effects == classified.ui_effects.v
           IN /\ \A i, j \in 1..Len(effects) :
                    i < j => C32_Rank(effects[i].type) < C32_Rank(effects[j].type)
              /\ C32_MarketMentioned =>
                    \E i \in 1..Len(effects) : effects[i].type = "SHOW_MARKET_OVERVIEW"

C33_BuyMentioned ==
    \E k \in {"mua", "buy", "ðặt lệnh", "order"} : IsSubstr(k, Lower(classify_args.query))

\* the symbol the buy effect is to carry, "" when there is none
C33_Symbol ==
    IF C16_FirstToken(classify_args.reply) # "" THEN C16_FirstToken(classify_args.reply)
    ELSE C16_FirstToken(classify_args.query)

C33_Expected ==
    IF C33_BuyMentioned /\ C33_Symbol # "" THEN <<C33_Symbol>> ELSE <<>>

C33_Symbols(effects) ==
    [i \in 1..Len(C16_BuyEffects(effects)) |-> C16_BuyEffects(effects)[i].payload.symbol]

C34_Market == "Xem tổng quan thị trường"

\* the suggestions of the rules tried before the market overview rule
C34_Earlier ==
    LET symbols == FindSymbols(classify_args.query)
    IN HistorySuggestion(Lower(classify_args.reply))
       \o CompareSuggestion(symbols, classify_args.intent)
       \o ReportSuggestion(symbols, classify_args.intent)
       \o BuySuggestion(symbols, Lower(classify_args.reply), Lower(classify_args.query))

C34_Case(tokens) ==
    /\ classified # Unset
    /\ Cardinality(C16_Tokens(classify_args.query)) \in tokens
    /\ classify_args.intent # PStr("market_overview")
    /\ Len(C34_Earlier) < 3

\* C34 as stated: with one or several symbol tokens in the query, an intent
\* other than market_overview and fewer than three earlier suggestions, the
\* market overview suggestion is among the suggestions.
C34_MarketForAnySymbols ==
    C34_Case(Nat \ {0}) => C18_Has(C34_Market)

\* C34 amended: the market overview suggestion is made when the query holds
\* exactly one symbol token, the intent is not market_overview and fewer
\* than three earlier suggestions were made; with several symbol tokens it
\* is not made.
C34_MarketForOneSymbol ==
    /\ C34_Case({1}) => C18_Has(C34_Market)
    /\ C34_Case(Nat \ {0, 1}) => ~C18_Has(C34_Market)

C34_Witness ==
    /\ classified # Unset
    /\ classify_args.query = "Giá VNM" /\ classify_args.reply = ""
    /\ classify_args.intent = PStr("buy_stock")
    /\ C18_Texts = <<C34_Market>>

----------------------------------------------------------------------------
(* Aliases at a call of a generated adapter, checked under SpecInvoke *)

C35_Declared == DOMAIN invoke_adapter.properties.m

\* the declared name an argument name stands for
C35_Name(k) ==
    IF k \in DOMAIN invoke_adapter.tool_param_mapping
    THEN invoke_adapter.tool_param_mapping[k] ELSE k

\* the adapter was called with declared names and at least one alias of its
\* table, and every mandatory parameter is named, directly or by an alias
C35_AliasCall ==
    /\ invoke_sent # Running
    /\ \E k \in DOMAIN invoke_kwargs.m :
          k \notin C35_Declared /\ k \in DOMAIN invoke_adapter.tool_param_mapping
    /\ \A k \in DOMAIN invoke_kwargs.m : C35_Name(k) \in C35_Declared
    /\ \A i \in 1..Len(invoke_adapter.signature) :
          invoke_adapter.signature[i].mandatory =>
              \E k \in DOMAIN invoke_kwargs.m : C35_Name(k) = invoke_adapter.signature[i].name

\* C35 as stated: a call of the adapter with an alias of its table is
\* accepted and its tools/call request names the arguments as declared.
C35_AliasAccepted ==
    C35_AliasCall =>
        /\ invoke_sent.kind = "return"
        /\ DOMAIN invoke_sent.v.m \subseteq C35_Declared
        /\ \A k \in DOMAIN invoke_kwargs.m : C35_Name(k) \in DOMAIN invoke_sent.v.m

----------------------------------------------------------------------------
(* The number of arguments _process_arguments returns, checked under SpecArgs *)

\* C36 as stated: _process_arguments returns as many arguments as it was
\* given, also when an alias and the name it stands for are both supplied.
C36_NoArgumentDiscarded ==
    Processed => Len(processed_kwargs.keys) = Len(call_kwargs.keys)

----------------------------------------------------------------------------
(* More properties of the chat endpoint, checked under SpecChat *)

\* a validated request is being served or was served last
C37_Accepted == chat_turn # NoTurn

\* the index of the most recent message of role user
C37_LastUser(messages) ==
    CHOOSE i \in 1..Len(messages) :
        /\ messages[i].role = "user"
        /\ \A j \in (i + 1)..Len(messages) : messages[j].role # "user"

\* C37 as stated: the text sent to the agent and used as the query of the
\* derivations is the normalized content of the most recent message of
\* role user, the one validation checked, whatever the role of the last
\* message.
C37_QueryIsValidatedMessage ==
    C37_Accepted =>
        chat_turn.user_message = chat_turn.messages[C37_LastUser(chat_turn.messages)].content

C38_NonEmptyString(v) == v.t = "str" /\ v.s # ""

\* C38 as stated: in every turn the user id and the session id used for
\* the session store and the agent run are non-empty strings.
C38_IdsAreNonEmptyStrings ==
    C37_Accepted =>
        /\ C38_NonEmptyString(chat_turn.user_id)
        /\ C38_NonEmptyString(chat_turn.session_id)

----------------------------------------------------------------------------
(* Concurrent requests of one key, checked under SpecRequests *)

\* C39 as stated: for concurrent chat requests of one key without a
\* session, in every interleaving at the awaits of _ensure_session,
\* create_session is invoked at most once for the key and no request fails
\* because the session already exists.
C39_CreatedOncePerKey ==
    /\ \A key \in DOMAIN session_calls : session_calls[key].create <= 1
    /\ \A r \in Requests : requests[r].outcome # "already exists"
====
